---- MODULE Spec2Model ----
(***************************************************************************)
(* A model of extract_alf_roster.py: the Nebraska assisted-living-facility *)
(* roster extractor.  Page text and lines are TLA+ strings; the regular    *)
(* expressions of parse_page_text are written out as matchers over the     *)
(* characters of a line, and the two nested loops of parse_page_text are   *)
(* a step machine over the line cursor i.                                  *)
(***************************************************************************)
EXTENDS Integers, Sequences, FiniteSets, TLC

VARIABLES
    pages,        \* pdf.pages: the text extract_text() returns for each page
    skip_pages,   \* extract_facilities_from_pdf's skip_pages argument
    roster_date,  \* the roster_date argument (None or a string)
    page_num,     \* enumerate(pdf.pages): index of the page being visited
    extracted,    \* indexes of the pages whose extract_text() was invoked
    origin,       \* for each record of result, the page it was parsed from
    result,       \* extract_facilities_from_pdf's facilities list
    caller,       \* who called parse_page_text: "extract" or "direct"
    text,         \* parse_page_text's text argument
    lines,        \* text.split('\n')
    i,            \* the line cursor
    facility,     \* the record being built by the inner loop
    facilities,   \* parse_page_text's facilities list
    records,      \* facilities_to_csv's facilities argument
    out_file,     \* the content of the file at output_path (Absent: no file)
    written,      \* how many records writerows has written
    pc            \* control point

vars == <<pages, skip_pages, roster_date, page_num, extracted, origin, result,
          caller, text, lines, i, facility, facilities, records, out_file,
          written, pc>>

(***************************************************************************)
(* Python values                                                           *)
(***************************************************************************)
None == "<None>"

\* Truthiness of an Optional[str]: None and '' are falsy.
\* The state of a path at which there is no file
Absent == "<Absent>"

Truthy(s) == s # None /\ s # ""

(***************************************************************************)
(* Characters and character classes of the regular expressions             *)
(***************************************************************************)
\* s[k-1:k]: the character at 1-based position k, '' outside the string
Ch(s, k) == IF 1 <= k /\ k <= Len(s) THEN SubSeq(s, k, k) ELSE ""

\* A string of this module is a sequence of 16-bit units: a character of the
\* Basic Multilingual Plane is one unit, a character beyond it is two (a high
\* and a low surrogate), and Len, SubSeq and Ch count units where Python's
\* str counts characters.  The units that a string can hold are those up to
\* 00FF (but 0060) and, of the rest, those with a low byte of 80 or more; the
\* parser rejects every other unit inside a string.  So the characters that
\* can be held are those of the Basic Multilingual Plane with such a code
\* point, and beyond it those whose two surrogates both have a low byte of 80
\* or more: U+30080..U+300FF, U+30180..U+301FF and so on in the planes 3, 4,
\* 7, 8, 11, 12, 15 and 16.  The classes below are the classes of Python's
\* str patterns over these characters.

\* The high surrogates that can be held, each followed by the unit DC80
HighTable ==
    "𰂀𰒀𰢀𰲀𱂀𱒀𱢀𱲀𲂀𲒀𲢀𲲀𳂀𳒀𳢀𳲀𴂀𴒀𴢀𴲀𵂀𵒀𵢀𵲀𶂀𶒀𶢀𶲀𷂀𷒀𷢀𷲀𸂀𸒀𸢀𸲀𹂀𹒀𹢀𹲀𺂀𺒀𺢀𺲀𻂀𻒀𻢀𻲀𼂀𼒀𼢀𼲀𽂀𽒀𽢀𽲀𾂀𾒀𾢀𾲀𿂀𿒀𿢀𿲀񀂀񀒀񀢀񀲀񁂀񁒀񁢀񁲀񂂀񂒀񂢀񂲀񃂀񃒀񃢀񃲀񄂀񄒀񄢀񄲀񅂀񅒀񅢀񅲀񆂀񆒀񆢀񆲀񇂀񇒀񇢀񇲀񈂀񈒀񈢀񈲀񉂀񉒀񉢀񉲀񊂀񊒀񊢀񊲀񋂀񋒀񋢀񋲀񌂀񌒀񌢀񌲀񍂀񍒀񍢀񍲀񎂀񎒀񎢀񎲀񏂀񏒀񏢀񏲀񰂀񰒀񰢀񰲀񱂀񱒀񱢀񱲀񲂀񲒀񲢀񲲀񳂀񳒀񳢀񳲀񴂀񴒀񴢀񴲀񵂀񵒀񵢀񵲀񶂀񶒀񶢀񶲀񷂀񷒀񷢀񷲀񸂀񸒀񸢀񸲀񹂀񹒀񹢀񹲀񺂀񺒀񺢀񺲀񻂀񻒀񻢀񻲀񼂀񼒀񼢀񼲀񽂀񽒀񽢀񽲀񾂀񾒀񾢀񾲀񿂀񿒀񿢀񿲀򀂀򀒀򀢀򀲀򁂀򁒀򁢀򁲀򂂀򂒀򂢀򂲀򃂀򃒀򃢀򃲀򄂀򄒀򄢀򄲀򅂀򅒀򅢀򅲀򆂀򆒀򆢀򆲀򇂀򇒀򇢀򇲀򈂀򈒀򈢀򈲀򉂀򉒀򉢀򉲀򊂀򊒀򊢀򊲀򋂀򋒀򋢀򋲀򌂀򌒀򌢀򌲀򍂀򍒀򍢀򍲀򎂀򎒀򎢀򎲀򏂀򏒀򏢀򏲀򰂀򰒀򰢀򰲀򱂀򱒀򱢀򱲀򲂀򲒀򲢀򲲀򳂀򳒀򳢀򳲀򴂀򴒀򴢀򴲀򵂀򵒀򵢀򵲀򶂀򶒀򶢀򶲀򷂀򷒀򷢀򷲀򸂀򸒀򸢀򸲀򹂀򹒀򹢀򹲀򺂀򺒀򺢀򺲀򻂀򻒀򻢀򻲀򼂀򼒀򼢀򼲀򽂀򽒀򽢀򽲀򾂀򾒀򾢀򾲀򿂀򿒀򿢀򿲀󀂀󀒀󀢀󀲀󁂀󁒀󁢀󁲀󂂀󂒀󂢀󂲀󃂀󃒀󃢀󃲀󄂀󄒀󄢀󄲀󅂀󅒀󅢀󅲀󆂀󆒀󆢀󆲀󇂀󇒀󇢀󇲀󈂀󈒀󈢀󈲀󉂀󉒀󉢀󉲀󊂀󊒀󊢀󊲀󋂀󋒀󋢀󋲀󌂀󌒀󌢀󌲀󍂀󍒀󍢀󍲀󎂀󎒀󎢀󎲀󏂀󏒀󏢀󏲀󰂀󰒀󰢀󰲀󱂀󱒀󱢀󱲀󲂀󲒀󲢀󲲀󳂀󳒀󳢀󳲀󴂀󴒀󴢀󴲀󵂀󵒀󵢀󵲀󶂀󶒀󶢀󶲀󷂀󷒀󷢀󷲀󸂀󸒀󸢀󸲀󹂀󹒀󹢀󹲀󺂀󺒀󺢀󺲀󻂀󻒀󻢀󻲀󼂀󼒀󼢀󼲀󽂀󽒀󽢀󽲀󾂀󾒀󾢀󾲀󿂀󿒀󿢀󿲀􀂀􀒀􀢀􀲀􁂀􁒀􁢀􁲀􂂀􂒀􂢀􂲀􃂀􃒀􃢀􃲀􄂀􄒀􄢀􄲀􅂀􅒀􅢀􅲀􆂀􆒀􆢀􆲀􇂀􇒀􇢀􇲀􈂀􈒀􈢀􈲀􉂀􉒀􉢀􉲀􊂀􊒀􊢀􊲀􋂀􋒀􋢀􋲀􌂀􌒀􌢀􌲀􍂀􍒀􍢀􍲀􎂀􎒀􎢀􎲀􏂀􏒀􏢀􏲀"

\* The low surrogates that can be held, each preceded by the unit D880
LowTable ==
    "𰂀𰂁𰂂𰂃𰂄𰂅𰂆𰂇𰂈𰂉𰂊𰂋𰂌𰂍𰂎𰂏𰂐𰂑𰂒𰂓𰂔𰂕𰂖𰂗𰂘𰂙𰂚𰂛𰂜𰂝𰂞𰂟𰂠𰂡𰂢𰂣𰂤𰂥𰂦𰂧𰂨𰂩𰂪𰂫𰂬𰂭𰂮𰂯𰂰𰂱𰂲𰂳𰂴𰂵𰂶𰂷𰂸𰂹𰂺𰂻𰂼𰂽𰂾𰂿𰃀𰃁𰃂𰃃𰃄𰃅𰃆𰃇𰃈𰃉𰃊𰃋𰃌𰃍𰃎𰃏𰃐𰃑𰃒𰃓𰃔𰃕𰃖𰃗𰃘𰃙𰃚𰃛𰃜𰃝𰃞𰃟𰃠𰃡𰃢𰃣𰃤𰃥𰃦𰃧𰃨𰃩𰃪𰃫𰃬𰃭𰃮𰃯𰃰𰃱𰃲𰃳𰃴𰃵𰃶𰃷𰃸𰃹𰃺𰃻𰃼𰃽𰃾𰃿𰆀𰆁𰆂𰆃𰆄𰆅𰆆𰆇𰆈𰆉𰆊𰆋𰆌𰆍𰆎𰆏𰆐𰆑𰆒𰆓𰆔𰆕𰆖𰆗𰆘𰆙𰆚𰆛𰆜𰆝𰆞𰆟𰆠𰆡𰆢𰆣𰆤𰆥𰆦𰆧𰆨𰆩𰆪𰆫𰆬𰆭𰆮𰆯𰆰𰆱𰆲𰆳𰆴𰆵𰆶𰆷𰆸𰆹𰆺𰆻𰆼𰆽𰆾𰆿𰇀𰇁𰇂𰇃𰇄𰇅𰇆𰇇𰇈𰇉𰇊𰇋𰇌𰇍𰇎𰇏𰇐𰇑𰇒𰇓𰇔𰇕𰇖𰇗𰇘𰇙𰇚𰇛𰇜𰇝𰇞𰇟𰇠𰇡𰇢𰇣𰇤𰇥𰇦𰇧𰇨𰇩𰇪𰇫𰇬𰇭𰇮𰇯𰇰𰇱𰇲𰇳𰇴𰇵𰇶𰇷𰇸𰇹𰇺𰇻𰇼𰇽𰇾𰇿𰊀𰊁𰊂𰊃𰊄𰊅𰊆𰊇𰊈𰊉𰊊𰊋𰊌𰊍𰊎𰊏𰊐𰊑𰊒𰊓𰊔𰊕𰊖𰊗𰊘𰊙𰊚𰊛𰊜𰊝𰊞𰊟𰊠𰊡𰊢𰊣𰊤𰊥𰊦𰊧𰊨𰊩𰊪𰊫𰊬𰊭𰊮𰊯𰊰𰊱𰊲𰊳𰊴𰊵𰊶𰊷𰊸𰊹𰊺𰊻𰊼𰊽𰊾𰊿𰋀𰋁𰋂𰋃𰋄𰋅𰋆𰋇𰋈𰋉𰋊𰋋𰋌𰋍𰋎𰋏𰋐𰋑𰋒𰋓𰋔𰋕𰋖𰋗𰋘𰋙𰋚𰋛𰋜𰋝𰋞𰋟𰋠𰋡𰋢𰋣𰋤𰋥𰋦𰋧𰋨𰋩𰋪𰋫𰋬𰋭𰋮𰋯𰋰𰋱𰋲𰋳𰋴𰋵𰋶𰋷𰋸𰋹𰋺𰋻𰋼𰋽𰋾𰋿𰎀𰎁𰎂𰎃𰎄𰎅𰎆𰎇𰎈𰎉𰎊𰎋𰎌𰎍𰎎𰎏𰎐𰎑𰎒𰎓𰎔𰎕𰎖𰎗𰎘𰎙𰎚𰎛𰎜𰎝𰎞𰎟𰎠𰎡𰎢𰎣𰎤𰎥𰎦𰎧𰎨𰎩𰎪𰎫𰎬𰎭𰎮𰎯𰎰𰎱𰎲𰎳𰎴𰎵𰎶𰎷𰎸𰎹𰎺𰎻𰎼𰎽𰎾𰎿𰏀𰏁𰏂𰏃𰏄𰏅𰏆𰏇𰏈𰏉𰏊𰏋𰏌𰏍𰏎𰏏𰏐𰏑𰏒𰏓𰏔𰏕𰏖𰏗𰏘𰏙𰏚𰏛𰏜𰏝𰏞𰏟𰏠𰏡𰏢𰏣𰏤𰏥𰏦𰏧𰏨𰏩𰏪𰏫𰏬𰏭𰏮𰏯𰏰𰏱𰏲𰏳𰏴𰏵𰏶𰏷𰏸𰏹𰏺𰏻𰏼𰏽𰏾𰏿"

HighUnits == {SubSeq(HighTable, 2 * k - 1, 2 * k - 1) : k \in 1..(Len(HighTable) \div 2)}

LowUnits == {SubSeq(LowTable, 2 * k, 2 * k) : k \in 1..(Len(LowTable) \div 2)}

\* The units k and k+1 of s are one character beyond the Basic Multilingual
\* Plane
PairAt(s, k) ==
    /\ 1 <= k
    /\ k < Len(s)
    /\ SubSeq(s, k, k) \in HighUnits
    /\ SubSeq(s, k + 1, k + 1) \in LowUnits

\* The character of s that begins at unit k, '' outside the string
CharAt(s, k) == IF PairAt(s, k) THEN SubSeq(s, k, k + 1) ELSE Ch(s, k)

\* len(s): the number of characters of s
len(s) == Len(s) - Cardinality({k \in 1..Len(s) : PairAt(s, k)})

\* The decimal digits (category Nd), ten of each script
DigitAlphabet ==
    "0123456789" \o
    "۰۱۲۳۴۵۶۷۸۹" \o
    "߀߁߂߃߄߅߆߇߈߉" \o
    "০১২৩৪৫৬৭৮৯" \o
    "૦૧૨૩૪૫૬૭૮૯" \o
    "௦௧௨௩௪௫௬௭௮௯" \o
    "೦೧೨೩೪೫೬೭೮೯" \o
    "෦෧෨෩෪෫෬෭෮෯" \o
    "໐໑໒໓໔໕໖໗໘໙" \o
    "႐႑႒႓႔႕႖႗႘႙" \o
    "០១២៣៤៥៦៧៨៩" \o
    "᧐᧑᧒᧓᧔᧕᧖᧗᧘᧙" \o
    "᪀᪁᪂᪃᪄᪅᪆᪇᪈᪉" \o
    "᪐᪑᪒᪓᪔᪕᪖᪗᪘᪙" \o
    "᮰᮱᮲᮳᮴᮵᮶᮷᮸᮹" \o
    "꣐꣑꣒꣓꣔꣕꣖꣗꣘꣙" \o
    "꧐꧑꧒꧓꧔꧕꧖꧗꧘꧙" \o
    "꧰꧱꧲꧳꧴꧵꧶꧷꧸꧹" \o
    "꯰꯱꯲꯳꯴꯵꯶꯷꯸꯹"

\* \d
DigitChars == {Ch(DigitAlphabet, k) : k \in 1..Len(DigitAlphabet)}

UpperAlphabet == "ABCDEFGHIJKLMNOPQRSTUVWXYZ"

LowerAlphabet == "abcdefghijklmnopqrstuvwxyz"

UpperChars == {Ch(UpperAlphabet, k) : k \in 1..26}

LowerChars == {Ch(LowerAlphabet, k) : k \in 1..26}

\* \s of a str pattern, which is also what str.strip() removes: space, tab,
\* line feed, carriage return, form feed, vertical tab, the separators
\* U+001C..U+001F, next line U+0085, no-break space U+00A0 and the ogham
\* space mark U+1680.  (The other spaces, U+2000..U+200A, U+2028, U+2029,
\* U+202F, U+205F and U+3000, are characters that no string here can hold.)
WsChars ==
    {" ", "\t", "\n", "\r", "\f", "", "", "", "", "",
     "", " ", " "}

\* The letters, digits and other alphanumeric characters beyond ASCII
WordAlphabet ==
    "ª²³µ¹º¼½¾ÀÁÂÃÄÅÆÇÈÉÊËÌÍÎÏÐÑÒÓÔÕÖØÙÚÛÜÝÞßàáâãäåæçèéêëìíîïðñòóôõöøùúûüýþÿƀƁƂƃƄƅƆƇƈƉƊƋƌƍƎƏƐƑƒƓƔƕƖƗƘƙƚƛƜƝƞƟƠơƢƣƤƥƦƧƨƩƪƫƬƭƮƯưƱƲƳƴƵƶƷƸƹƺƻƼƽƾƿǀǁǂǃǄǅǆǇǈǉǊǋǌǍǎǏǐǑǒǓǔǕǖǗǘǙǚǛǜǝǞǟǠǡǢǣǤǥǦǧǨǩǪǫǬǭǮǯǰǱǲǳǴǵǶǷǸǹǺǻǼǽǾǿʀʁʂʃʄʅʆʇʈʉʊʋʌʍʎʏʐʑʒʓʔʕʖʗʘʙʚʛʜʝʞʟʠʡʢʣʤʥʦʧʨʩʪʫʬʭʮʯʰʱʲʳʴʵʶʷʸʹʺʻʼʽʾʿˀˁˆˇˈˉˊˋˌˍˎˏːˑˠˡˢˣˤˬˮΆΈΉΊΌΎΏΐΑΒΓΔΕΖΗΘΙΚΛΜΝΞΟΠΡΣΤΥΦΧΨΩΪΫάέήίΰαβγδεζηθικλμνξοπρςστυφχψωϊϋόύώϏϐϑϒϓϔϕϖϗϘϙϚϛϜϝϞϟϠϡϢϣϤϥϦϧϨϩϪϫϬϭϮϯϰϱϲϳϴϵϷϸϹϺϻϼϽϾϿҀҁҊҋҌҍҎҏҐґҒғҔҕҖҗҘҙҚқҜҝҞҟҠҡҢңҤҥҦҧҨҩҪҫҬҭҮүҰұҲҳҴҵҶҷҸҹҺһҼҽҾҿӀӁӂӃӄӅӆӇӈӉӊӋӌӍӎӏӐӑӒӓӔӕӖӗӘәӚӛӜӝӞӟӠӡӢӣӤӥӦӧӨөӪӫӬӭӮӯӰӱӲӳӴӵӶӷӸӹӺӻӼӽӾӿրցւփքօֆևֈאבגדהוזחטיךכלםמןנסעףפץצקרשתׯװױײڀځڂڃڄڅچڇڈډڊڋڌڍڎڏڐڑڒړڔڕږڗژڙښڛڜڝڞڟڠڡڢڣڤڥڦڧڨکڪګڬڭڮگڰڱڲڳڴڵڶڷڸڹںڻڼڽھڿۀہۂۃۄۅۆۇۈۉۊۋیۍێۏېۑےۓەۥۦۮۯ۰۱۲۳۴۵۶۷۸۹ۺۻۼۿހށނރބޅކއވމފދތލގޏސޑޒޓޔޕޖޗޘޙޚޛޜޝޞޟޠޡޢޣޤޥޱ߀߁߂߃߄߅߆߇߈߉ߊߋߌߍߎߏߐߑߒߓߔߕߖߗߘߙߚߛߜߝߞߟߠߡߢߣߤߥߦߧߨߩߪߴߵߺࢀࢁࢂࢃࢄࢅࢆࢇࢉࢊࢋࢌࢍࢎࢠࢡࢢࢣࢤࢥࢦࢧࢨࢩࢪࢫࢬࢭࢮࢯࢰࢱࢲࢳࢴࢵࢶࢷࢸࢹࢺࢻࢼࢽࢾࢿࣀࣁࣂࣃࣄࣅࣆࣇࣈࣉঀঅআইঈউঊঋঌএঐওঔকখগঘঙচছজঝঞটঠডঢণতথদধনপফবভমযরলশষসহঽৎড়ঢ়য়ৠৡ০১২৩৪৫৬৭৮৯ৰৱ৴৵৶৷৸৹ৼઅઆઇઈઉઊઋઌઍએઐઑઓઔકખગઘઙચછજઝઞટઠડઢણતથદધનપફબભમયરલળવશષસહઽૐૠૡ૦૧૨૩૪૫૬૭૮૯ૹஃஅஆஇஈஉஊஎஏஐஒஓஔகஙசஜஞடணதநனபமயரறலளழவஶஷஸஹௐ௦௧௨௩௪௫௬௭௮௯௰௱௲ಀಅಆಇಈಉಊಋಌಎಏಐಒಓಔಕಖಗಘಙಚಛಜಝಞಟಠಡಢಣತಥದಧನ" \o
    "ಪಫಬಭಮಯರಱಲಳವಶಷಸಹಽೝೞೠೡ೦೧೨೩೪೫೬೭೮೯ೱೲඅආඇඈඉඊඋඌඍඎඏඐඑඒඓඔඕඖකඛගඝඞඟචඡජඣඤඥඦටඨඩඪණඬතථදධනඳපඵබභමඹයරලවශෂසහළෆ෦෧෨෩෪෫෬෭෮෯ກຂຄຆງຈຉຊຌຍຎຏຐຑຒຓດຕຖທຘນບປຜຝພຟຠມຢຣລວຨຩສຫຬອຮຯະາຳຽເແໂໃໄໆ໐໑໒໓໔໕໖໗໘໙ໜໝໞໟྈྉྊྋྌႀႁႎ႐႑႒႓႔႕႖႗႘႙ႠႡႢႣႤႥႦႧႨႩႪႫႬႭႮႯႰႱႲႳႴႵႶႷႸႹႺႻႼႽႾႿჀჁჂჃჄჅჇჍაბგდევზთიკლმნოპჟრსტუფქღყშჩცძწჭხჯჰჱჲჳჴჵჶჷჸჹჺჼჽჾჿᆀᆁᆂᆃᆄᆅᆆᆇᆈᆉᆊᆋᆌᆍᆎᆏᆐᆑᆒᆓᆔᆕᆖᆗᆘᆙᆚᆛᆜᆝᆞᆟᆠᆡᆢᆣᆤᆥᆦᆧᆨᆩᆪᆫᆬᆭᆮᆯᆰᆱᆲᆳᆴᆵᆶᆷᆸᆹᆺᆻᆼᆽᆾᆿᇀᇁᇂᇃᇄᇅᇆᇇᇈᇉᇊᇋᇌᇍᇎᇏᇐᇑᇒᇓᇔᇕᇖᇗᇘᇙᇚᇛᇜᇝᇞᇟᇠᇡᇢᇣᇤᇥᇦᇧᇨᇩᇪᇫᇬᇭᇮᇯᇰᇱᇲᇳᇴᇵᇶᇷᇸᇹᇺᇻᇼᇽᇾᇿኀኁኂኃኄኅኆኇኈኊኋኌኍነኑኒናኔንኖኗኘኙኚኛኜኝኞኟአኡኢኣኤእኦኧከኩኪካኬክኮኯኰኲኳኴኵኸኹኺኻኼኽኾዀዂዃዄዅወዉዊዋዌውዎዏዐዑዒዓዔዕዖዘዙዚዛዜዝዞዟዠዡዢዣዤዥዦዧየዩዪያዬይዮዯደዱዲዳዴድዶዷዸዹዺዻዼዽዾዿᎀᎁᎂᎃᎄᎅᎆᎇᎈᎉᎊᎋᎌᎍᎎᎏᎠᎡᎢᎣᎤᎥᎦᎧᎨᎩᎪᎫᎬᎭᎮᎯᎰᎱᎲᎳᎴᎵᎶᎷᎸᎹᎺᎻᎼᎽᎾᎿᏀᏁᏂᏃᏄᏅᏆᏇᏈᏉᏊᏋᏌᏍᏎᏏᏐᏑᏒᏓᏔᏕᏖᏗᏘᏙᏚᏛᏜᏝᏞᏟᏠᏡᏢᏣᏤᏥᏦᏧᏨᏩᏪᏫᏬᏭᏮᏯᏰᏱᏲᏳᏴᏵᏸᏹᏺᏻᏼᏽᒀᒁᒂᒃᒄᒅᒆᒇᒈᒉᒊᒋᒌᒍᒎᒏᒐᒑᒒᒓᒔᒕᒖᒗᒘᒙᒚᒛᒜᒝᒞᒟᒠᒡᒢᒣᒤᒥᒦᒧᒨᒩᒪᒫᒬᒭᒮᒯᒰᒱᒲᒳᒴᒵᒶᒷᒸᒹᒺᒻᒼᒽᒾᒿᓀᓁᓂᓃᓄᓅᓆᓇᓈᓉᓊᓋᓌᓍᓎᓏᓐᓑᓒᓓᓔᓕᓖᓗᓘᓙᓚᓛᓜᓝᓞᓟᓠᓡᓢᓣᓤᓥᓦᓧᓨᓩᓪᓫᓬᓭᓮᓯᓰᓱᓲᓳᓴᓵᓶᓷᓸᓹᓺᓻᓼᓽᓾᓿᖀᖁᖂᖃᖄᖅᖆᖇᖈᖉᖊᖋᖌᖍᖎᖏᖐᖑᖒᖓᖔᖕᖖᖗᖘᖙᖚᖛᖜᖝᖞᖟᖠᖡᖢᖣᖤᖥᖦᖧᖨᖩᖪᖫᖬᖭᖮᖯᖰᖱᖲᖳᖴᖵᖶᖷᖸᖹᖺᖻᖼᖽᖾᖿᗀᗁᗂᗃᗄᗅᗆᗇᗈᗉᗊᗋᗌᗍᗎᗏᗐᗑᗒᗓᗔᗕᗖᗗᗘᗙᗚᗛᗜᗝᗞᗟᗠᗡᗢᗣᗤᗥᗦᗧᗨᗩᗪᗫᗬᗭᗮᗯᗰᗱᗲᗳᗴᗵᗶᗷᗸᗹᗺᗻᗼᗽᗾᗿᚁᚂᚃᚄᚅᚆᚇᚈᚉᚊᚋᚌᚍᚎᚏᚐᚑᚒᚓᚔᚕᚖᚗᚘᚙᚚᚠᚡᚢᚣᚤᚥᚦᚧᚨᚩᚪᚫᚬᚭᚮᚯᚰᚱᚲᚳᚴᚵᚶᚷᚸᚹᚺᚻᚼᚽᚾᚿᛀᛁᛂᛃᛄᛅᛆᛇᛈᛉᛊᛋᛌᛍᛎᛏᛐᛑᛒᛓᛔᛕᛖᛗᛘᛙᛚᛛᛜᛝᛞᛟᛠᛡᛢᛣᛤᛥᛦᛧᛨᛩᛪᛮᛯᛰᛱᛲᛳᛴᛵᛶᛷᛸកខគឃងចឆជឈញដឋឌឍណតថទធនបផពភមយរលវឝឞ" \o
    "សហឡអឣឤឥឦឧឨឩឪឫឬឭឮឯឰឱឲឳៗៜ០១២៣៤៥៦៧៨៩៰៱៲៳៴៵៶៷៸៹ᢀᢁᢂᢃᢄᢇᢈᢉᢊᢋᢌᢍᢎᢏᢐᢑᢒᢓᢔᢕᢖᢗᢘᢙᢚᢛᢜᢝᢞᢟᢠᢡᢢᢣᢤᢥᢦᢧᢨᢪᢰᢱᢲᢳᢴᢵᢶᢷᢸᢹᢺᢻᢼᢽᢾᢿᣀᣁᣂᣃᣄᣅᣆᣇᣈᣉᣊᣋᣌᣍᣎᣏᣐᣑᣒᣓᣔᣕᣖᣗᣘᣙᣚᣛᣜᣝᣞᣟᣠᣡᣢᣣᣤᣥᣦᣧᣨᣩᣪᣫᣬᣭᣮᣯᣰᣱᣲᣳᣴᣵᦀᦁᦂᦃᦄᦅᦆᦇᦈᦉᦊᦋᦌᦍᦎᦏᦐᦑᦒᦓᦔᦕᦖᦗᦘᦙᦚᦛᦜᦝᦞᦟᦠᦡᦢᦣᦤᦥᦦᦧᦨᦩᦪᦫᦰᦱᦲᦳᦴᦵᦶᦷᦸᦹᦺᦻᦼᦽᦾᦿᧀᧁᧂᧃᧄᧅᧆᧇᧈᧉ᧐᧑᧒᧓᧔᧕᧖᧗᧘᧙᧚᪀᪁᪂᪃᪄᪅᪆᪇᪈᪉᪐᪑᪒᪓᪔᪕᪖᪗᪘᪙ᪧᮃᮄᮅᮆᮇᮈᮉᮊᮋᮌᮍᮎᮏᮐᮑᮒᮓᮔᮕᮖᮗᮘᮙᮚᮛᮜᮝᮞᮟᮠᮮᮯ᮰᮱᮲᮳᮴᮵᮶᮷᮸᮹ᮺᮻᮼᮽᮾᮿᯀᯁᯂᯃᯄᯅᯆᯇᯈᯉᯊᯋᯌᯍᯎᯏᯐᯑᯒᯓᯔᯕᯖᯗᯘᯙᯚᯛᯜᯝᯞᯟᯠᯡᯢᯣᯤᯥᲀᲁᲂᲃᲄᲅᲆᲇᲈᲐᲑᲒᲓᲔᲕᲖᲗᲘᲙᲚᲛᲜᲝᲞᲟᲠᲡᲢᲣᲤᲥᲦᲧᲨᲩᲪᲫᲬᲭᲮᲯᲰᲱᲲᲳᲴᲵᲶᲷᲸᲹᲺᲽᲾᲿᳩᳪᳫᳬᳮᳯᳰᳱᳲᳳᳵᳶᳺᶀᶁᶂᶃᶄᶅᶆᶇᶈᶉᶊᶋᶌᶍᶎᶏᶐᶑᶒᶓᶔᶕᶖᶗᶘᶙᶚᶛᶜᶝᶞᶟᶠᶡᶢᶣᶤᶥᶦᶧᶨᶩᶪᶫᶬᶭᶮᶯᶰᶱᶲᶳᶴᶵᶶᶷᶸᶹᶺᶻᶼᶽᶾᶿẀẁẂẃẄẅẆẇẈẉẊẋẌẍẎẏẐẑẒẓẔẕẖẗẘẙẚẛẜẝẞẟẠạẢảẤấẦầẨẩẪẫẬậẮắẰằẲẳẴẵẶặẸẹẺẻẼẽẾếỀềỂểỄễỆệỈỉỊịỌọỎỏỐốỒồỔổỖỗỘộỚớỜờỞởỠỡỢợỤụỦủỨứỪừỬửỮữỰựỲỳỴỵỶỷỸỹỺỻỼỽỾỿᾀᾁᾂᾃᾄᾅᾆᾇᾈᾉᾊᾋᾌᾍᾎᾏᾐᾑᾒᾓᾔᾕᾖᾗᾘᾙᾚᾛᾜᾝᾞᾟᾠᾡᾢᾣᾤᾥᾦᾧᾨᾩᾪᾫᾬᾭᾮᾯᾰᾱᾲᾳᾴᾶᾷᾸᾹᾺΆᾼιῂῃῄῆῇῈΈῊΉῌῐῑῒΐῖῗῘῙῚΊῠῡῢΰῤῥῦῧῨῩῪΎῬῲῳῴῶῷῸΌῺΏῼ₀₁₂₃₄₅₆₇₈₉ₐₑₒₓₔₕₖₗₘₙₚₛₜↀↁↂↃↄↅↆↇↈ↉⒀⒁⒂⒃⒄⒅⒆⒇⒈⒉⒊⒋⒌⒍⒎⒏⒐⒑⒒⒓⒔⒕⒖⒗⒘⒙⒚⒛⓪⓫⓬⓭⓮⓯⓰⓱⓲⓳⓴⓵⓶⓷⓸⓹⓺⓻⓼⓽⓾⓿➀➁➂➃➄➅➆➇➈➉➊➋➌➍➎➏➐➑➒➓ⲀⲁⲂⲃⲄⲅⲆⲇⲈⲉⲊⲋⲌⲍⲎⲏⲐⲑⲒⲓⲔⲕⲖⲗⲘⲙⲚⲛⲜⲝⲞⲟⲠⲡⲢⲣⲤⲥⲦⲧⲨⲩⲪⲫⲬⲭⲮⲯⲰⲱⲲⲳⲴⲵⲶⲷⲸⲹⲺⲻⲼⲽⲾⲿⳀⳁⳂⳃⳄⳅⳆⳇⳈⳉⳊⳋⳌⳍⳎⳏⳐⳑⳒⳓⳔⳕⳖⳗⳘⳙⳚⳛⳜⳝⳞⳟⳠⳡⳢⳣⳤⳫⳬⳭⳮⳲⳳ⳽ⶀⶁⶂⶃⶄⶅⶆⶇⶈⶉⶊⶋⶌⶍⶎⶏⶐⶑⶒⶓⶔⶕⶖⶠⶡⶢⶣⶤⶥⶦⶨⶩⶪⶫⶬⶭⶮⶰⶱⶲⶳⶴⶵⶶⶸⶹⶺⶻⶼⶽⶾⷀⷁⷂⷃⷄⷅⷆⷈⷉⷊⷋⷌⷍⷎⷐⷑⷒⷓⷔⷕⷖⷘⷙⷚⷛⷜⷝⷞむめもゃやゅゆょよらりるれろゎわゐゑをんゔゕゖゝゞゟァアィ" \o
    "イゥウェエォオカガキギクグケゲコゴサザシジスズセゼソゾタダチヂッツヅテデトドナニヌネノハバパヒビピフブプヘベペホボポマミムメモャヤュユョヨラリルレロヮワヰヱヲンヴヵヶヷヸヹヺーヽヾヿㆀㆁㆂㆃㆄㆅㆆㆇㆈㆉㆊㆋㆌㆍㆎ㆒㆓㆔㆕ㆠㆡㆢㆣㆤㆥㆦㆧㆨㆩㆪㆫㆬㆭㆮㆯㆰㆱㆲㆳㆴㆵㆶㆷㆸㆹㆺㆻㆼㆽㆾㆿㇰㇱㇲㇳㇴㇵㇶㇷㇸㇹㇺㇻㇼㇽㇾㇿ㊀㊁㊂㊃㊄㊅㊆㊇㊈㊉㊱㊲㊳㊴㊵㊶㊷㊸㊹㊺㊻㊼㊽㊾㊿㒀㒁㒂㒃㒄㒅㒆㒇㒈㒉㒊㒋㒌㒍㒎㒏㒐㒑㒒㒓㒔㒕㒖㒗㒘㒙㒚㒛㒜㒝㒞㒟㒠㒡㒢㒣㒤㒥㒦㒧㒨㒩㒪㒫㒬㒭㒮㒯㒰㒱㒲㒳㒴㒵㒶㒷㒸㒹㒺㒻㒼㒽㒾㒿㓀㓁㓂㓃㓄㓅㓆㓇㓈㓉㓊㓋㓌㓍㓎㓏㓐㓑㓒㓓㓔㓕㓖㓗㓘㓙㓚㓛㓜㓝㓞㓟㓠㓡㓢㓣㓤㓥㓦㓧㓨㓩㓪㓫㓬㓭㓮㓯㓰㓱㓲㓳㓴㓵㓶㓷㓸㓹㓺㓻㓼㓽㓾㓿㖀㖁㖂㖃㖄㖅㖆㖇㖈㖉㖊㖋㖌㖍㖎㖏㖐㖑㖒㖓㖔㖕㖖㖗㖘㖙㖚㖛㖜㖝㖞㖟㖠㖡㖢㖣㖤㖥㖦㖧㖨㖩㖪㖫㖬㖭㖮㖯㖰㖱㖲㖳㖴㖵㖶㖷㖸㖹㖺㖻㖼㖽㖾㖿㗀㗁㗂㗃㗄㗅㗆㗇㗈㗉㗊㗋㗌㗍㗎㗏㗐㗑㗒㗓㗔㗕㗖㗗㗘㗙㗚㗛㗜㗝㗞㗟㗠㗡㗢㗣㗤㗥㗦㗧㗨㗩㗪㗫㗬㗭㗮㗯㗰㗱㗲㗳㗴㗵㗶㗷㗸㗹㗺㗻㗼㗽㗾㗿㚀㚁㚂㚃㚄㚅㚆㚇㚈㚉㚊㚋㚌㚍㚎㚏㚐㚑㚒㚓㚔㚕㚖㚗㚘㚙㚚㚛㚜㚝㚞㚟㚠㚡㚢㚣㚤㚥㚦㚧㚨㚩㚪㚫㚬㚭㚮㚯㚰㚱㚲㚳㚴㚵㚶㚷㚸㚹㚺㚻㚼㚽㚾㚿㛀㛁㛂㛃㛄㛅㛆㛇㛈㛉㛊㛋㛌㛍㛎㛏㛐㛑㛒㛓㛔㛕㛖㛗㛘㛙㛚㛛㛜㛝㛞㛟㛠㛡㛢㛣㛤㛥㛦㛧㛨㛩㛪㛫㛬㛭㛮㛯㛰㛱㛲㛳㛴㛵㛶㛷㛸㛹㛺㛻㛼㛽㛾㛿㞀㞁㞂㞃㞄㞅㞆㞇㞈㞉㞊㞋㞌㞍㞎㞏㞐㞑㞒㞓㞔㞕㞖㞗㞘㞙㞚㞛㞜㞝㞞㞟㞠㞡㞢㞣㞤㞥㞦㞧㞨㞩㞪㞫㞬㞭㞮㞯㞰㞱㞲㞳㞴㞵㞶㞷㞸㞹㞺㞻㞼㞽㞾㞿㟀㟁㟂㟃㟄㟅㟆㟇㟈㟉㟊㟋㟌㟍㟎㟏㟐㟑㟒㟓㟔㟕㟖㟗㟘㟙㟚㟛㟜㟝㟞㟟㟠㟡㟢㟣㟤㟥㟦㟧㟨㟩㟪㟫㟬㟭㟮㟯㟰㟱㟲㟳㟴㟵㟶㟷㟸㟹㟺㟻㟼㟽㟾㟿㢀㢁㢂㢃㢄㢅㢆㢇㢈㢉㢊㢋㢌㢍㢎㢏㢐㢑㢒㢓㢔㢕㢖㢗㢘㢙㢚㢛㢜㢝㢞㢟㢠㢡㢢㢣㢤㢥㢦㢧㢨㢩㢪㢫㢬㢭㢮㢯㢰㢱㢲㢳㢴㢵㢶㢷㢸㢹㢺㢻㢼㢽㢾㢿㣀㣁㣂㣃㣄㣅㣆㣇㣈㣉㣊㣋㣌㣍㣎㣏㣐㣑㣒㣓㣔㣕㣖㣗㣘㣙㣚㣛㣜㣝㣞㣟㣠㣡㣢㣣㣤㣥㣦㣧㣨㣩㣪㣫㣬㣭㣮㣯㣰㣱㣲㣳㣴㣵㣶㣷㣸㣹㣺㣻㣼㣽㣾㣿㦀㦁㦂㦃㦄㦅㦆㦇㦈㦉㦊㦋㦌㦍㦎㦏㦐㦑㦒㦓㦔㦕㦖㦗㦘㦙㦚㦛㦜㦝㦞㦟㦠㦡㦢㦣㦤㦥㦦㦧㦨㦩㦪㦫㦬㦭㦮㦯㦰㦱㦲㦳㦴㦵㦶㦷㦸㦹㦺㦻㦼㦽㦾㦿㧀㧁㧂㧃㧄㧅㧆㧇㧈㧉㧊㧋㧌㧍㧎㧏㧐㧑㧒㧓㧔㧕㧖㧗㧘㧙㧚㧛㧜㧝㧞㧟㧠㧡㧢㧣㧤㧥㧦㧧㧨㧩㧪㧫㧬㧭㧮㧯㧰㧱㧲㧳㧴㧵㧶㧷㧸㧹㧺㧻㧼㧽㧾㧿㪀㪁㪂㪃㪄㪅㪆㪇㪈㪉㪊㪋㪌㪍㪎㪏㪐㪑㪒㪓㪔㪕㪖㪗㪘㪙㪚㪛㪜㪝㪞㪟㪠㪡㪢㪣㪤㪥㪦㪧㪨㪩㪪㪫㪬㪭㪮㪯㪰㪱㪲㪳㪴㪵㪶㪷㪸㪹㪺㪻㪼㪽㪾㪿㫀㫁㫂㫃㫄㫅㫆㫇㫈" \o
    "㫉㫊㫋㫌㫍㫎㫏㫐㫑㫒㫓㫔㫕㫖㫗㫘㫙㫚㫛㫜㫝㫞㫟㫠㫡㫢㫣㫤㫥㫦㫧㫨㫩㫪㫫㫬㫭㫮㫯㫰㫱㫲㫳㫴㫵㫶㫷㫸㫹㫺㫻㫼㫽㫾㫿㮀㮁㮂㮃㮄㮅㮆㮇㮈㮉㮊㮋㮌㮍㮎㮏㮐㮑㮒㮓㮔㮕㮖㮗㮘㮙㮚㮛㮜㮝㮞㮟㮠㮡㮢㮣㮤㮥㮦㮧㮨㮩㮪㮫㮬㮭㮮㮯㮰㮱㮲㮳㮴㮵㮶㮷㮸㮹㮺㮻㮼㮽㮾㮿㯀㯁㯂㯃㯄㯅㯆㯇㯈㯉㯊㯋㯌㯍㯎㯏㯐㯑㯒㯓㯔㯕㯖㯗㯘㯙㯚㯛㯜㯝㯞㯟㯠㯡㯢㯣㯤㯥㯦㯧㯨㯩㯪㯫㯬㯭㯮㯯㯰㯱㯲㯳㯴㯵㯶㯷㯸㯹㯺㯻㯼㯽㯾㯿㲀㲁㲂㲃㲄㲅㲆㲇㲈㲉㲊㲋㲌㲍㲎㲏㲐㲑㲒㲓㲔㲕㲖㲗㲘㲙㲚㲛㲜㲝㲞㲟㲠㲡㲢㲣㲤㲥㲦㲧㲨㲩㲪㲫㲬㲭㲮㲯㲰㲱㲲㲳㲴㲵㲶㲷㲸㲹㲺㲻㲼㲽㲾㲿㳀㳁㳂㳃㳄㳅㳆㳇㳈㳉㳊㳋㳌㳍㳎㳏㳐㳑㳒㳓㳔㳕㳖㳗㳘㳙㳚㳛㳜㳝㳞㳟㳠㳡㳢㳣㳤㳥㳦㳧㳨㳩㳪㳫㳬㳭㳮㳯㳰㳱㳲㳳㳴㳵㳶㳷㳸㳹㳺㳻㳼㳽㳾㳿㶀㶁㶂㶃㶄㶅㶆㶇㶈㶉㶊㶋㶌㶍㶎㶏㶐㶑㶒㶓㶔㶕㶖㶗㶘㶙㶚㶛㶜㶝㶞㶟㶠㶡㶢㶣㶤㶥㶦㶧㶨㶩㶪㶫㶬㶭㶮㶯㶰㶱㶲㶳㶴㶵㶶㶷㶸㶹㶺㶻㶼㶽㶾㶿㷀㷁㷂㷃㷄㷅㷆㷇㷈㷉㷊㷋㷌㷍㷎㷏㷐㷑㷒㷓㷔㷕㷖㷗㷘㷙㷚㷛㷜㷝㷞㷟㷠㷡㷢㷣㷤㷥㷦㷧㷨㷩㷪㷫㷬㷭㷮㷯㷰㷱㷲㷳㷴㷵㷶㷷㷸㷹㷺㷻㷼㷽㷾㷿㺀㺁㺂㺃㺄㺅㺆㺇㺈㺉㺊㺋㺌㺍㺎㺏㺐㺑㺒㺓㺔㺕㺖㺗㺘㺙㺚㺛㺜㺝㺞㺟㺠㺡㺢㺣㺤㺥㺦㺧㺨㺩㺪㺫㺬㺭㺮㺯㺰㺱㺲㺳㺴㺵㺶㺷㺸㺹㺺㺻㺼㺽㺾㺿㻀㻁㻂㻃㻄㻅㻆㻇㻈㻉㻊㻋㻌㻍㻎㻏㻐㻑㻒㻓㻔㻕㻖㻗㻘㻙㻚㻛㻜㻝㻞㻟㻠㻡㻢㻣㻤㻥㻦㻧㻨㻩㻪㻫㻬㻭㻮㻯㻰㻱㻲㻳㻴㻵㻶㻷㻸㻹㻺㻻㻼㻽㻾㻿㾀㾁㾂㾃㾄㾅㾆㾇㾈㾉㾊㾋㾌㾍㾎㾏㾐㾑㾒㾓㾔㾕㾖㾗㾘㾙㾚㾛㾜㾝㾞㾟㾠㾡㾢㾣㾤㾥㾦㾧㾨㾩㾪㾫㾬㾭㾮㾯㾰㾱㾲㾳㾴㾵㾶㾷㾸㾹㾺㾻㾼㾽㾾㾿㿀㿁㿂㿃㿄㿅㿆㿇㿈㿉㿊㿋㿌㿍㿎㿏㿐㿑㿒㿓㿔㿕㿖㿗㿘㿙㿚㿛㿜㿝㿞㿟㿠㿡㿢㿣㿤㿥㿦㿧㿨㿩㿪㿫㿬㿭㿮㿯㿰㿱㿲㿳㿴㿵㿶㿷㿸㿹㿺㿻㿼㿽㿾㿿䂀䂁䂂䂃䂄䂅䂆䂇䂈䂉䂊䂋䂌䂍䂎䂏䂐䂑䂒䂓䂔䂕䂖䂗䂘䂙䂚䂛䂜䂝䂞䂟䂠䂡䂢䂣䂤䂥䂦䂧䂨䂩䂪䂫䂬䂭䂮䂯䂰䂱䂲䂳䂴䂵䂶䂷䂸䂹䂺䂻䂼䂽䂾䂿䃀䃁䃂䃃䃄䃅䃆䃇䃈䃉䃊䃋䃌䃍䃎䃏䃐䃑䃒䃓䃔䃕䃖䃗䃘䃙䃚䃛䃜䃝䃞䃟䃠䃡䃢䃣䃤䃥䃦䃧䃨䃩䃪䃫䃬䃭䃮䃯䃰䃱䃲䃳䃴䃵䃶䃷䃸䃹䃺䃻䃼䃽䃾䃿䆀䆁䆂䆃䆄䆅䆆䆇䆈䆉䆊䆋䆌䆍䆎䆏䆐䆑䆒䆓䆔䆕䆖䆗䆘䆙䆚䆛䆜䆝䆞䆟䆠䆡䆢䆣䆤䆥䆦䆧䆨䆩䆪䆫䆬䆭䆮䆯䆰䆱䆲䆳䆴䆵䆶䆷䆸䆹䆺䆻䆼䆽䆾䆿䇀䇁䇂䇃䇄䇅䇆䇇䇈䇉䇊䇋䇌䇍䇎䇏䇐䇑䇒䇓䇔䇕䇖䇗䇘䇙䇚䇛䇜䇝䇞䇟䇠䇡䇢䇣䇤䇥䇦䇧䇨䇩䇪䇫䇬䇭䇮䇯䇰䇱䇲䇳䇴䇵䇶䇷䇸䇹䇺䇻䇼䇽䇾䇿䊀䊁䊂䊃䊄䊅䊆䊇䊈䊉䊊䊋䊌䊍䊎䊏䊐䊑䊒䊓䊔䊕䊖䊗䊘䊙䊚䊛䊜䊝䊞䊟䊠䊡䊢䊣䊤䊥䊦䊧䊨䊩䊪䊫䊬䊭䊮䊯䊰䊱䊲䊳䊴䊵䊶䊷䊸䊹䊺䊻䊼䊽䊾䊿䋀䋁䋂䋃䋄䋅䋆䋇䋈" \o
    "䋉䋊䋋䋌䋍䋎䋏䋐䋑䋒䋓䋔䋕䋖䋗䋘䋙䋚䋛䋜䋝䋞䋟䋠䋡䋢䋣䋤䋥䋦䋧䋨䋩䋪䋫䋬䋭䋮䋯䋰䋱䋲䋳䋴䋵䋶䋷䋸䋹䋺䋻䋼䋽䋾䋿䎀䎁䎂䎃䎄䎅䎆䎇䎈䎉䎊䎋䎌䎍䎎䎏䎐䎑䎒䎓䎔䎕䎖䎗䎘䎙䎚䎛䎜䎝䎞䎟䎠䎡䎢䎣䎤䎥䎦䎧䎨䎩䎪䎫䎬䎭䎮䎯䎰䎱䎲䎳䎴䎵䎶䎷䎸䎹䎺䎻䎼䎽䎾䎿䏀䏁䏂䏃䏄䏅䏆䏇䏈䏉䏊䏋䏌䏍䏎䏏䏐䏑䏒䏓䏔䏕䏖䏗䏘䏙䏚䏛䏜䏝䏞䏟䏠䏡䏢䏣䏤䏥䏦䏧䏨䏩䏪䏫䏬䏭䏮䏯䏰䏱䏲䏳䏴䏵䏶䏷䏸䏹䏺䏻䏼䏽䏾䏿䒀䒁䒂䒃䒄䒅䒆䒇䒈䒉䒊䒋䒌䒍䒎䒏䒐䒑䒒䒓䒔䒕䒖䒗䒘䒙䒚䒛䒜䒝䒞䒟䒠䒡䒢䒣䒤䒥䒦䒧䒨䒩䒪䒫䒬䒭䒮䒯䒰䒱䒲䒳䒴䒵䒶䒷䒸䒹䒺䒻䒼䒽䒾䒿䓀䓁䓂䓃䓄䓅䓆䓇䓈䓉䓊䓋䓌䓍䓎䓏䓐䓑䓒䓓䓔䓕䓖䓗䓘䓙䓚䓛䓜䓝䓞䓟䓠䓡䓢䓣䓤䓥䓦䓧䓨䓩䓪䓫䓬䓭䓮䓯䓰䓱䓲䓳䓴䓵䓶䓷䓸䓹䓺䓻䓼䓽䓾䓿䖀䖁䖂䖃䖄䖅䖆䖇䖈䖉䖊䖋䖌䖍䖎䖏䖐䖑䖒䖓䖔䖕䖖䖗䖘䖙䖚䖛䖜䖝䖞䖟䖠䖡䖢䖣䖤䖥䖦䖧䖨䖩䖪䖫䖬䖭䖮䖯䖰䖱䖲䖳䖴䖵䖶䖷䖸䖹䖺䖻䖼䖽䖾䖿䗀䗁䗂䗃䗄䗅䗆䗇䗈䗉䗊䗋䗌䗍䗎䗏䗐䗑䗒䗓䗔䗕䗖䗗䗘䗙䗚䗛䗜䗝䗞䗟䗠䗡䗢䗣䗤䗥䗦䗧䗨䗩䗪䗫䗬䗭䗮䗯䗰䗱䗲䗳䗴䗵䗶䗷䗸䗹䗺䗻䗼䗽䗾䗿䚀䚁䚂䚃䚄䚅䚆䚇䚈䚉䚊䚋䚌䚍䚎䚏䚐䚑䚒䚓䚔䚕䚖䚗䚘䚙䚚䚛䚜䚝䚞䚟䚠䚡䚢䚣䚤䚥䚦䚧䚨䚩䚪䚫䚬䚭䚮䚯䚰䚱䚲䚳䚴䚵䚶䚷䚸䚹䚺䚻䚼䚽䚾䚿䛀䛁䛂䛃䛄䛅䛆䛇䛈䛉䛊䛋䛌䛍䛎䛏䛐䛑䛒䛓䛔䛕䛖䛗䛘䛙䛚䛛䛜䛝䛞䛟䛠䛡䛢䛣䛤䛥䛦䛧䛨䛩䛪䛫䛬䛭䛮䛯䛰䛱䛲䛳䛴䛵䛶䛷䛸䛹䛺䛻䛼䛽䛾䛿䞀䞁䞂䞃䞄䞅䞆䞇䞈䞉䞊䞋䞌䞍䞎䞏䞐䞑䞒䞓䞔䞕䞖䞗䞘䞙䞚䞛䞜䞝䞞䞟䞠䞡䞢䞣䞤䞥䞦䞧䞨䞩䞪䞫䞬䞭䞮䞯䞰䞱䞲䞳䞴䞵䞶䞷䞸䞹䞺䞻䞼䞽䞾䞿䟀䟁䟂䟃䟄䟅䟆䟇䟈䟉䟊䟋䟌䟍䟎䟏䟐䟑䟒䟓䟔䟕䟖䟗䟘䟙䟚䟛䟜䟝䟞䟟䟠䟡䟢䟣䟤䟥䟦䟧䟨䟩䟪䟫䟬䟭䟮䟯䟰䟱䟲䟳䟴䟵䟶䟷䟸䟹䟺䟻䟼䟽䟾䟿䢀䢁䢂䢃䢄䢅䢆䢇䢈䢉䢊䢋䢌䢍䢎䢏䢐䢑䢒䢓䢔䢕䢖䢗䢘䢙䢚䢛䢜䢝䢞䢟䢠䢡䢢䢣䢤䢥䢦䢧䢨䢩䢪䢫䢬䢭䢮䢯䢰䢱䢲䢳䢴䢵䢶䢷䢸䢹䢺䢻䢼䢽䢾䢿䣀䣁䣂䣃䣄䣅䣆䣇䣈䣉䣊䣋䣌䣍䣎䣏䣐䣑䣒䣓䣔䣕䣖䣗䣘䣙䣚䣛䣜䣝䣞䣟䣠䣡䣢䣣䣤䣥䣦䣧䣨䣩䣪䣫䣬䣭䣮䣯䣰䣱䣲䣳䣴䣵䣶䣷䣸䣹䣺䣻䣼䣽䣾䣿䦀䦁䦂䦃䦄䦅䦆䦇䦈䦉䦊䦋䦌䦍䦎䦏䦐䦑䦒䦓䦔䦕䦖䦗䦘䦙䦚䦛䦜䦝䦞䦟䦠䦡䦢䦣䦤䦥䦦䦧䦨䦩䦪䦫䦬䦭䦮䦯䦰䦱䦲䦳䦴䦵䦶䦷䦸䦹䦺䦻䦼䦽䦾䦿䧀䧁䧂䧃䧄䧅䧆䧇䧈䧉䧊䧋䧌䧍䧎䧏䧐䧑䧒䧓䧔䧕䧖䧗䧘䧙䧚䧛䧜䧝䧞䧟䧠䧡䧢䧣䧤䧥䧦䧧䧨䧩䧪䧫䧬䧭䧮䧯䧰䧱䧲䧳䧴䧵䧶䧷䧸䧹䧺䧻䧼䧽䧾䧿䪀䪁䪂䪃䪄䪅䪆䪇䪈䪉䪊䪋䪌䪍䪎䪏䪐䪑䪒䪓䪔䪕䪖䪗䪘䪙䪚䪛䪜䪝䪞䪟䪠䪡䪢䪣䪤䪥䪦䪧䪨䪩䪪䪫䪬䪭䪮䪯䪰䪱䪲䪳䪴䪵䪶䪷䪸䪹䪺䪻䪼䪽䪾䪿䫀䫁䫂䫃䫄䫅䫆䫇䫈" \o
    "䫉䫊䫋䫌䫍䫎䫏䫐䫑䫒䫓䫔䫕䫖䫗䫘䫙䫚䫛䫜䫝䫞䫟䫠䫡䫢䫣䫤䫥䫦䫧䫨䫩䫪䫫䫬䫭䫮䫯䫰䫱䫲䫳䫴䫵䫶䫷䫸䫹䫺䫻䫼䫽䫾䫿䮀䮁䮂䮃䮄䮅䮆䮇䮈䮉䮊䮋䮌䮍䮎䮏䮐䮑䮒䮓䮔䮕䮖䮗䮘䮙䮚䮛䮜䮝䮞䮟䮠䮡䮢䮣䮤䮥䮦䮧䮨䮩䮪䮫䮬䮭䮮䮯䮰䮱䮲䮳䮴䮵䮶䮷䮸䮹䮺䮻䮼䮽䮾䮿䯀䯁䯂䯃䯄䯅䯆䯇䯈䯉䯊䯋䯌䯍䯎䯏䯐䯑䯒䯓䯔䯕䯖䯗䯘䯙䯚䯛䯜䯝䯞䯟䯠䯡䯢䯣䯤䯥䯦䯧䯨䯩䯪䯫䯬䯭䯮䯯䯰䯱䯲䯳䯴䯵䯶䯷䯸䯹䯺䯻䯼䯽䯾䯿䲀䲁䲂䲃䲄䲅䲆䲇䲈䲉䲊䲋䲌䲍䲎䲏䲐䲑䲒䲓䲔䲕䲖䲗䲘䲙䲚䲛䲜䲝䲞䲟䲠䲡䲢䲣䲤䲥䲦䲧䲨䲩䲪䲫䲬䲭䲮䲯䲰䲱䲲䲳䲴䲵䲶䲷䲸䲹䲺䲻䲼䲽䲾䲿䳀䳁䳂䳃䳄䳅䳆䳇䳈䳉䳊䳋䳌䳍䳎䳏䳐䳑䳒䳓䳔䳕䳖䳗䳘䳙䳚䳛䳜䳝䳞䳟䳠䳡䳢䳣䳤䳥䳦䳧䳨䳩䳪䳫䳬䳭䳮䳯䳰䳱䳲䳳䳴䳵䳶䳷䳸䳹䳺䳻䳼䳽䳾䳿䶀䶁䶂䶃䶄䶅䶆䶇䶈䶉䶊䶋䶌䶍䶎䶏䶐䶑䶒䶓䶔䶕䶖䶗䶘䶙䶚䶛䶜䶝䶞䶟䶠䶡䶢䶣䶤䶥䶦䶧䶨䶩䶪䶫䶬䶭䶮䶯䶰䶱䶲䶳䶴䶵䶶䶷䶸䶹䶺䶻䶼䶽䶾䶿亀亁亂亃亄亅了亇予争亊事二亍于亏亐云互亓五井亖亗亘亙亚些亜亝亞亟亠亡亢亣交亥亦产亨亩亪享京亭亮亯亰亱亲亳亴亵亶亷亸亹人亻亼亽亾亿什仁仂仃仄仅仆仇仈仉今介仌仍从仏仐仑仒仓仔仕他仗付仙仚仛仜仝仞仟仠仡仢代令以仦仧仨仩仪仫们仭仮仯仰仱仲仳仴仵件价仸仹仺任仼份仾仿侀侁侂侃侄侅來侇侈侉侊例侌侍侎侏侐侑侒侓侔侕侖侗侘侙侚供侜依侞侟侠価侢侣侤侥侦侧侨侩侪侫侬侭侮侯侰侱侲侳侴侵侶侷侸侹侺侻侼侽侾便俀俁係促俄俅俆俇俈俉俊俋俌俍俎俏俐俑俒俓俔俕俖俗俘俙俚俛俜保俞俟俠信俢俣俤俥俦俧俨俩俪俫俬俭修俯俰俱俲俳俴俵俶俷俸俹俺俻俼俽俾俿傀傁傂傃傄傅傆傇傈傉傊傋傌傍傎傏傐傑傒傓傔傕傖傗傘備傚傛傜傝傞傟傠傡傢傣傤傥傦傧储傩傪傫催傭傮傯傰傱傲傳傴債傶傷傸傹傺傻傼傽傾傿僀僁僂僃僄僅僆僇僈僉僊僋僌働僎像僐僑僒僓僔僕僖僗僘僙僚僛僜僝僞僟僠僡僢僣僤僥僦僧僨僩僪僫僬僭僮僯僰僱僲僳僴僵僶僷僸價僺僻僼僽僾僿冀冁冂冃冄内円冇冈冉冊冋册再冎冏冐冑冒冓冔冕冖冗冘写冚军农冝冞冟冠冡冢冣冤冥冦冧冨冩冪冫冬冭冮冯冰冱冲决冴况冶冷冸冹冺冻冼冽冾冿净凁凂凃凄凅准凇凈凉凊凋凌凍凎减凐凑凒凓凔凕凖凗凘凙凚凛凜凝凞凟几凡凢凣凤凥処凧凨凩凪凫凬凭凮凯凰凱凲凳凴凵凶凷凸凹出击凼函凾凿劀劁劂劃劄劅劆劇劈劉劊劋劌劍劎劏劐劑劒劓劔劕劖劗劘劙劚力劜劝办功加务劢劣劤劥劦劧动助努劫劬劭劮劯劰励劲劳労劵劶劷劸効劺劻劼劽劾势勀勁勂勃勄勅勆勇勈勉勊勋勌勍勎勏勐勑勒勓勔動勖勗勘務勚勛勜勝勞募勠勡勢勣勤勥勦勧勨勩勪勫勬勭勮勯勰勱勲勳勴勵勶勷勸勹勺勻勼勽勾勿厀厁厂厃厄厅历厇厈" \o
    "厉厊压厌厍厎厏厐厑厒厓厔厕厖厗厘厙厚厛厜厝厞原厠厡厢厣厤厥厦厧厨厩厪厫厬厭厮厯厰厱厲厳厴厵厶厷厸厹厺去厼厽厾县叀叁参參叄叅叆叇又叉及友双反収叏叐发叒叓叔叕取受变叙叚叛叜叝叞叟叠叡叢口古句另叧叨叩只叫召叭叮可台叱史右叴叵叶号司叹叺叻叼叽叾叿咀咁咂咃咄咅咆咇咈咉咊咋和咍咎咏咐咑咒咓咔咕咖咗咘咙咚咛咜咝咞咟咠咡咢咣咤咥咦咧咨咩咪咫咬咭咮咯咰咱咲咳咴咵咶咷咸咹咺咻咼咽咾咿哀品哂哃哄哅哆哇哈哉哊哋哌响哎哏哐哑哒哓哔哕哖哗哘哙哚哛哜哝哞哟哠員哢哣哤哥哦哧哨哩哪哫哬哭哮哯哰哱哲哳哴哵哶哷哸哹哺哻哼哽哾哿喀喁喂喃善喅喆喇喈喉喊喋喌喍喎喏喐喑喒喓喔喕喖喗喘喙喚喛喜喝喞喟喠喡喢喣喤喥喦喧喨喩喪喫喬喭單喯喰喱喲喳喴喵営喷喸喹喺喻喼喽喾喿嗀嗁嗂嗃嗄嗅嗆嗇嗈嗉嗊嗋嗌嗍嗎嗏嗐嗑嗒嗓嗔嗕嗖嗗嗘嗙嗚嗛嗜嗝嗞嗟嗠嗡嗢嗣嗤嗥嗦嗧嗨嗩嗪嗫嗬嗭嗮嗯嗰嗱嗲嗳嗴嗵嗶嗷嗸嗹嗺嗻嗼嗽嗾嗿嚀嚁嚂嚃嚄嚅嚆嚇嚈嚉嚊嚋嚌嚍嚎嚏嚐嚑嚒嚓嚔嚕嚖嚗嚘嚙嚚嚛嚜嚝嚞嚟嚠嚡嚢嚣嚤嚥嚦嚧嚨嚩嚪嚫嚬嚭嚮嚯嚰嚱嚲嚳嚴嚵嚶嚷嚸嚹嚺嚻嚼嚽嚾嚿囀囁囂囃囄囅囆囇囈囉囊囋囌囍囎囏囐囑囒囓囔囕囖囗囘囙囚四囜囝回囟因囡团団囤囥囦囧囨囩囪囫囬园囮囯困囱囲図围囵囶囷囸囹固囻囼国图囿垀垁垂垃垄垅垆垇垈垉垊型垌垍垎垏垐垑垒垓垔垕垖垗垘垙垚垛垜垝垞垟垠垡垢垣垤垥垦垧垨垩垪垫垬垭垮垯垰垱垲垳垴垵垶垷垸垹垺垻垼垽垾垿埀埁埂埃埄埅埆埇埈埉埊埋埌埍城埏埐埑埒埓埔埕埖埗埘埙埚埛埜埝埞域埠埡埢埣埤埥埦埧埨埩埪埫埬埭埮埯埰埱埲埳埴埵埶執埸培基埻埼埽埾埿墀墁墂境墄墅墆墇墈墉墊墋墌墍墎墏墐墑墒墓墔墕墖増墘墙墚墛墜墝增墟墠墡墢墣墤墥墦墧墨墩墪墫墬墭墮墯墰墱墲墳墴墵墶墷墸墹墺墻墼墽墾墿壀壁壂壃壄壅壆壇壈壉壊壋壌壍壎壏壐壑壒壓壔壕壖壗壘壙壚壛壜壝壞壟壠壡壢壣壤壥壦壧壨壩壪士壬壭壮壯声壱売壳壴壵壶壷壸壹壺壻壼壽壾壿妀妁如妃妄妅妆妇妈妉妊妋妌妍妎妏妐妑妒妓妔妕妖妗妘妙妚妛妜妝妞妟妠妡妢妣妤妥妦妧妨妩妪妫妬妭妮妯妰妱妲妳妴妵妶妷妸妹妺妻妼妽妾妿姀姁姂姃姄姅姆姇姈姉姊始姌姍姎姏姐姑姒姓委姕姖姗姘姙姚姛姜姝姞姟姠姡姢姣姤姥姦姧姨姩姪姫姬姭姮姯姰姱姲姳姴姵姶姷姸姹姺姻姼姽姾姿媀媁媂媃媄媅媆媇媈媉媊媋媌媍媎媏媐媑媒媓媔媕媖媗媘媙媚媛媜媝媞媟媠媡媢媣媤媥媦媧媨媩媪媫媬媭媮媯媰媱媲媳媴媵媶媷媸媹媺媻媼媽媾媿嫀嫁嫂嫃嫄嫅嫆嫇嫈嫉嫊嫋嫌嫍嫎嫏嫐嫑嫒嫓嫔嫕嫖嫗嫘嫙嫚嫛嫜嫝嫞嫟嫠嫡嫢嫣嫤嫥嫦嫧嫨嫩嫪嫫嫬嫭嫮嫯嫰嫱嫲嫳嫴嫵嫶嫷嫸嫹嫺嫻嫼嫽嫾嫿宀宁宂它宄宅宆宇守" \o
    "安宊宋完宍宎宏宐宑宒宓宔宕宖宗官宙定宛宜宝实実宠审客宣室宥宦宧宨宩宪宫宬宭宮宯宰宱宲害宴宵家宷宸容宺宻宼宽宾宿寀寁寂寃寄寅密寇寈寉寊寋富寍寎寏寐寑寒寓寔寕寖寗寘寙寚寛寜寝寞察寠寡寢寣寤寥實寧寨審寪寫寬寭寮寯寰寱寲寳寴寵寶寷寸对寺寻导寽対寿岀岁岂岃岄岅岆岇岈岉岊岋岌岍岎岏岐岑岒岓岔岕岖岗岘岙岚岛岜岝岞岟岠岡岢岣岤岥岦岧岨岩岪岫岬岭岮岯岰岱岲岳岴岵岶岷岸岹岺岻岼岽岾岿峀峁峂峃峄峅峆峇峈峉峊峋峌峍峎峏峐峑峒峓峔峕峖峗峘峙峚峛峜峝峞峟峠峡峢峣峤峥峦峧峨峩峪峫峬峭峮峯峰峱峲峳峴峵島峷峸峹峺峻峼峽峾峿嶀嶁嶂嶃嶄嶅嶆嶇嶈嶉嶊嶋嶌嶍嶎嶏嶐嶑嶒嶓嶔嶕嶖嶗嶘嶙嶚嶛嶜嶝嶞嶟嶠嶡嶢嶣嶤嶥嶦嶧嶨嶩嶪嶫嶬嶭嶮嶯嶰嶱嶲嶳嶴嶵嶶嶷嶸嶹嶺嶻嶼嶽嶾嶿巀巁巂巃巄巅巆巇巈巉巊巋巌巍巎巏巐巑巒巓巔巕巖巗巘巙巚巛巜川州巟巠巡巢巣巤工左巧巨巩巪巫巬巭差巯巰己已巳巴巵巶巷巸巹巺巻巼巽巾巿庀庁庂広庄庅庆庇庈庉床庋庌庍庎序庐庑庒库应底庖店庘庙庚庛府庝庞废庠庡庢庣庤庥度座庨庩庪庫庬庭庮庯庰庱庲庳庴庵庶康庸庹庺庻庼庽庾庿廀廁廂廃廄廅廆廇廈廉廊廋廌廍廎廏廐廑廒廓廔廕廖廗廘廙廚廛廜廝廞廟廠廡廢廣廤廥廦廧廨廩廪廫廬廭廮廯廰廱廲廳廴廵延廷廸廹建廻廼廽廾廿往征徂徃径待徆徇很徉徊律後徍徎徏徐徑徒従徔徕徖得徘徙徚徛徜徝從徟徠御徢徣徤徥徦徧徨復循徫徬徭微徯徰徱徲徳徴徵徶德徸徹徺徻徼徽徾徿忀忁忂心忄必忆忇忈忉忊忋忌忍忎忏忐忑忒忓忔忕忖志忘忙忚忛応忝忞忟忠忡忢忣忤忥忦忧忨忩忪快忬忭忮忯忰忱忲忳忴念忶忷忸忹忺忻忼忽忾忿悀悁悂悃悄悅悆悇悈悉悊悋悌悍悎悏悐悑悒悓悔悕悖悗悘悙悚悛悜悝悞悟悠悡悢患悤悥悦悧您悩悪悫悬悭悮悯悰悱悲悳悴悵悶悷悸悹悺悻悼悽悾悿惀惁惂惃惄情惆惇惈惉惊惋惌惍惎惏惐惑惒惓惔惕惖惗惘惙惚惛惜惝惞惟惠惡惢惣惤惥惦惧惨惩惪惫惬惭惮惯惰惱惲想惴惵惶惷惸惹惺惻惼惽惾惿憀憁憂憃憄憅憆憇憈憉憊憋憌憍憎憏憐憑憒憓憔憕憖憗憘憙憚憛憜憝憞憟憠憡憢憣憤憥憦憧憨憩憪憫憬憭憮憯憰憱憲憳憴憵憶憷憸憹憺憻憼憽憾憿懀懁懂懃懄懅懆懇懈應懊懋懌懍懎懏懐懑懒懓懔懕懖懗懘懙懚懛懜懝懞懟懠懡懢懣懤懥懦懧懨懩懪懫懬懭懮懯懰懱懲懳懴懵懶懷懸懹懺懻懼懽懾懿技抁抂抃抄抅抆抇抈抉把抋抌抍抎抏抐抑抒抓抔投抖抗折抙抚抛抜抝択抟抠抡抢抣护报抦抧抨抩抪披抬抭抮抯抰抱抲抳抴抵抶抷抸抹抺抻押抽抾抿拀拁拂拃拄担拆拇拈拉拊拋拌拍拎拏拐拑拒拓拔拕拖拗拘拙拚招拜拝拞拟拠拡拢拣拤拥拦拧拨择拪拫括拭拮拯拰拱拲拳拴拵拶拷拸拹拺拻拼拽拾拿掀掁掂掃掄掅掆掇授" \o
    "掉掊掋掌掍掎掏掐掑排掓掔掕掖掗掘掙掚掛掜掝掞掟掠採探掣掤接掦控推掩措掫掬掭掮掯掰掱掲掳掴掵掶掷掸掹掺掻掼掽掾掿揀揁揂揃揄揅揆揇揈揉揊揋揌揍揎描提揑插揓揔揕揖揗揘揙揚換揜揝揞揟揠握揢揣揤揥揦揧揨揩揪揫揬揭揮揯揰揱揲揳援揵揶揷揸揹揺揻揼揽揾揿撀撁撂撃撄撅撆撇撈撉撊撋撌撍撎撏撐撑撒撓撔撕撖撗撘撙撚撛撜撝撞撟撠撡撢撣撤撥撦撧撨撩撪撫撬播撮撯撰撱撲撳撴撵撶撷撸撹撺撻撼撽撾撿擀擁擂擃擄擅擆擇擈擉擊擋擌操擎擏擐擑擒擓擔擕擖擗擘擙據擛擜擝擞擟擠擡擢擣擤擥擦擧擨擩擪擫擬擭擮擯擰擱擲擳擴擵擶擷擸擹擺擻擼擽擾擿斀斁斂斃斄斅斆文斈斉斊斋斌斍斎斏斐斑斒斓斔斕斖斗斘料斚斛斜斝斞斟斠斡斢斣斤斥斦斧斨斩斪斫斬断斮斯新斱斲斳斴斵斶斷斸方斺斻於施斾斿旀旁旂旃旄旅旆旇旈旉旊旋旌旍旎族旐旑旒旓旔旕旖旗旘旙旚旛旜旝旞旟无旡既旣旤日旦旧旨早旪旫旬旭旮旯旰旱旲旳旴旵时旷旸旹旺旻旼旽旾旿暀暁暂暃暄暅暆暇暈暉暊暋暌暍暎暏暐暑暒暓暔暕暖暗暘暙暚暛暜暝暞暟暠暡暢暣暤暥暦暧暨暩暪暫暬暭暮暯暰暱暲暳暴暵暶暷暸暹暺暻暼暽暾暿曀曁曂曃曄曅曆曇曈曉曊曋曌曍曎曏曐曑曒曓曔曕曖曗曘曙曚曛曜曝曞曟曠曡曢曣曤曥曦曧曨曩曪曫曬曭曮曯曰曱曲曳更曵曶曷書曹曺曻曼曽曾替枀极枂枃构枅枆枇枈枉枊枋枌枍枎枏析枑枒枓枔枕枖林枘枙枚枛果枝枞枟枠枡枢枣枤枥枦枧枨枩枪枫枬枭枮枯枰枱枲枳枴枵架枷枸枹枺枻枼枽枾枿柀柁柂柃柄柅柆柇柈柉柊柋柌柍柎柏某柑柒染柔柕柖柗柘柙柚柛柜柝柞柟柠柡柢柣柤查柦柧柨柩柪柫柬柭柮柯柰柱柲柳柴柵柶柷柸柹柺査柼柽柾柿梀梁梂梃梄梅梆梇梈梉梊梋梌梍梎梏梐梑梒梓梔梕梖梗梘梙梚梛梜條梞梟梠梡梢梣梤梥梦梧梨梩梪梫梬梭梮梯械梱梲梳梴梵梶梷梸梹梺梻梼梽梾梿检棁棂棃棄棅棆棇棈棉棊棋棌棍棎棏棐棑棒棓棔棕棖棗棘棙棚棛棜棝棞棟棠棡棢棣棤棥棦棧棨棩棪棫棬棭森棯棰棱棲棳棴棵棶棷棸棹棺棻棼棽棾棿榀榁概榃榄榅榆榇榈榉榊榋榌榍榎榏榐榑榒榓榔榕榖榗榘榙榚榛榜榝榞榟榠榡榢榣榤榥榦榧榨榩榪榫榬榭榮榯榰榱榲榳榴榵榶榷榸榹榺榻榼榽榾榿槀槁槂槃槄槅槆槇槈槉槊構槌槍槎槏槐槑槒槓槔槕槖槗様槙槚槛槜槝槞槟槠槡槢槣槤槥槦槧槨槩槪槫槬槭槮槯槰槱槲槳槴槵槶槷槸槹槺槻槼槽槾槿檀檁檂檃檄檅檆檇檈檉檊檋檌檍檎檏檐檑檒檓檔檕檖檗檘檙檚檛檜檝檞檟檠檡檢檣檤檥檦檧檨檩檪檫檬檭檮檯檰檱檲檳檴檵檶檷檸檹檺檻檼檽檾檿櫀櫁櫂櫃櫄櫅櫆櫇櫈櫉櫊櫋櫌櫍櫎櫏櫐櫑櫒櫓櫔櫕櫖櫗櫘櫙櫚櫛櫜櫝櫞櫟櫠櫡櫢櫣櫤櫥櫦櫧櫨櫩櫪櫫櫬櫭櫮櫯櫰櫱櫲櫳櫴櫵櫶櫷櫸櫹櫺櫻櫼櫽櫾櫿殀殁殂殃殄殅殆殇殈" \o
    "殉殊残殌殍殎殏殐殑殒殓殔殕殖殗殘殙殚殛殜殝殞殟殠殡殢殣殤殥殦殧殨殩殪殫殬殭殮殯殰殱殲殳殴段殶殷殸殹殺殻殼殽殾殿毀毁毂毃毄毅毆毇毈毉毊毋毌母毎每毐毑毒毓比毕毖毗毘毙毚毛毜毝毞毟毠毡毢毣毤毥毦毧毨毩毪毫毬毭毮毯毰毱毲毳毴毵毶毷毸毹毺毻毼毽毾毿沀沁沂沃沄沅沆沇沈沉沊沋沌沍沎沏沐沑沒沓沔沕沖沗沘沙沚沛沜沝沞沟沠没沢沣沤沥沦沧沨沩沪沫沬沭沮沯沰沱沲河沴沵沶沷沸油沺治沼沽沾沿泀況泂泃泄泅泆泇泈泉泊泋泌泍泎泏泐泑泒泓泔法泖泗泘泙泚泛泜泝泞泟泠泡波泣泤泥泦泧注泩泪泫泬泭泮泯泰泱泲泳泴泵泶泷泸泹泺泻泼泽泾泿涀涁涂涃涄涅涆涇消涉涊涋涌涍涎涏涐涑涒涓涔涕涖涗涘涙涚涛涜涝涞涟涠涡涢涣涤涥润涧涨涩涪涫涬涭涮涯涰涱液涳涴涵涶涷涸涹涺涻涼涽涾涿淀淁淂淃淄淅淆淇淈淉淊淋淌淍淎淏淐淑淒淓淔淕淖淗淘淙淚淛淜淝淞淟淠淡淢淣淤淥淦淧淨淩淪淫淬淭淮淯淰深淲淳淴淵淶混淸淹淺添淼淽淾淿満溁溂溃溄溅溆溇溈溉溊溋溌溍溎溏源溑溒溓溔溕準溗溘溙溚溛溜溝溞溟溠溡溢溣溤溥溦溧溨溩溪溫溬溭溮溯溰溱溲溳溴溵溶溷溸溹溺溻溼溽溾溿滀滁滂滃滄滅滆滇滈滉滊滋滌滍滎滏滐滑滒滓滔滕滖滗滘滙滚滛滜滝滞滟滠满滢滣滤滥滦滧滨滩滪滫滬滭滮滯滰滱滲滳滴滵滶滷滸滹滺滻滼滽滾滿澀澁澂澃澄澅澆澇澈澉澊澋澌澍澎澏澐澑澒澓澔澕澖澗澘澙澚澛澜澝澞澟澠澡澢澣澤澥澦澧澨澩澪澫澬澭澮澯澰澱澲澳澴澵澶澷澸澹澺澻澼澽澾澿激濁濂濃濄濅濆濇濈濉濊濋濌濍濎濏濐濑濒濓濔濕濖濗濘濙濚濛濜濝濞濟濠濡濢濣濤濥濦濧濨濩濪濫濬濭濮濯濰濱濲濳濴濵濶濷濸濹濺濻濼濽濾濿炀炁炂炃炄炅炆炇炈炉炊炋炌炍炎炏炐炑炒炓炔炕炖炗炘炙炚炛炜炝炞炟炠炡炢炣炤炥炦炧炨炩炪炫炬炭炮炯炰炱炲炳炴炵炶炷炸点為炻炼炽炾炿烀烁烂烃烄烅烆烇烈烉烊烋烌烍烎烏烐烑烒烓烔烕烖烗烘烙烚烛烜烝烞烟烠烡烢烣烤烥烦烧烨烩烪烫烬热烮烯烰烱烲烳烴烵烶烷烸烹烺烻烼烽烾烿熀熁熂熃熄熅熆熇熈熉熊熋熌熍熎熏熐熑熒熓熔熕熖熗熘熙熚熛熜熝熞熟熠熡熢熣熤熥熦熧熨熩熪熫熬熭熮熯熰熱熲熳熴熵熶熷熸熹熺熻熼熽熾熿燀燁燂燃燄燅燆燇燈燉燊燋燌燍燎燏燐燑燒燓燔燕燖燗燘燙燚燛燜燝燞營燠燡燢燣燤燥燦燧燨燩燪燫燬燭燮燯燰燱燲燳燴燵燶燷燸燹燺燻燼燽燾燿犀犁犂犃犄犅犆犇犈犉犊犋犌犍犎犏犐犑犒犓犔犕犖犗犘犙犚犛犜犝犞犟犠犡犢犣犤犥犦犧犨犩犪犫犬犭犮犯犰犱犲犳犴犵状犷犸犹犺犻犼犽犾犿狀狁狂狃狄狅狆狇狈狉狊狋狌狍狎狏狐狑狒狓狔狕狖狗狘狙狚狛狜狝狞狟狠狡狢狣狤狥狦狧狨狩狪狫独狭狮狯狰狱狲狳狴狵狶狷狸狹狺狻狼狽狾狿玀玁玂玃玄玅玆率玈" \o
    "玉玊王玌玍玎玏玐玑玒玓玔玕玖玗玘玙玚玛玜玝玞玟玠玡玢玣玤玥玦玧玨玩玪玫玬玭玮环现玱玲玳玴玵玶玷玸玹玺玻玼玽玾玿珀珁珂珃珄珅珆珇珈珉珊珋珌珍珎珏珐珑珒珓珔珕珖珗珘珙珚珛珜珝珞珟珠珡珢珣珤珥珦珧珨珩珪珫珬班珮珯珰珱珲珳珴珵珶珷珸珹珺珻珼珽現珿璀璁璂璃璄璅璆璇璈璉璊璋璌璍璎璏璐璑璒璓璔璕璖璗璘璙璚璛璜璝璞璟璠璡璢璣璤璥璦璧璨璩璪璫璬璭璮璯環璱璲璳璴璵璶璷璸璹璺璻璼璽璾璿瓀瓁瓂瓃瓄瓅瓆瓇瓈瓉瓊瓋瓌瓍瓎瓏瓐瓑瓒瓓瓔瓕瓖瓗瓘瓙瓚瓛瓜瓝瓞瓟瓠瓡瓢瓣瓤瓥瓦瓧瓨瓩瓪瓫瓬瓭瓮瓯瓰瓱瓲瓳瓴瓵瓶瓷瓸瓹瓺瓻瓼瓽瓾瓿疀疁疂疃疄疅疆疇疈疉疊疋疌疍疎疏疐疑疒疓疔疕疖疗疘疙疚疛疜疝疞疟疠疡疢疣疤疥疦疧疨疩疪疫疬疭疮疯疰疱疲疳疴疵疶疷疸疹疺疻疼疽疾疿痀痁痂痃痄病痆症痈痉痊痋痌痍痎痏痐痑痒痓痔痕痖痗痘痙痚痛痜痝痞痟痠痡痢痣痤痥痦痧痨痩痪痫痬痭痮痯痰痱痲痳痴痵痶痷痸痹痺痻痼痽痾痿皀皁皂皃的皅皆皇皈皉皊皋皌皍皎皏皐皑皒皓皔皕皖皗皘皙皚皛皜皝皞皟皠皡皢皣皤皥皦皧皨皩皪皫皬皭皮皯皰皱皲皳皴皵皶皷皸皹皺皻皼皽皾皿盀盁盂盃盄盅盆盇盈盉益盋盌盍盎盏盐监盒盓盔盕盖盗盘盙盚盛盜盝盞盟盠盡盢監盤盥盦盧盨盩盪盫盬盭目盯盰盱盲盳直盵盶盷相盹盺盻盼盽盾盿瞀瞁瞂瞃瞄瞅瞆瞇瞈瞉瞊瞋瞌瞍瞎瞏瞐瞑瞒瞓瞔瞕瞖瞗瞘瞙瞚瞛瞜瞝瞞瞟瞠瞡瞢瞣瞤瞥瞦瞧瞨瞩瞪瞫瞬瞭瞮瞯瞰瞱瞲瞳瞴瞵瞶瞷瞸瞹瞺瞻瞼瞽瞾瞿矀矁矂矃矄矅矆矇矈矉矊矋矌矍矎矏矐矑矒矓矔矕矖矗矘矙矚矛矜矝矞矟矠矡矢矣矤知矦矧矨矩矪矫矬短矮矯矰矱矲石矴矵矶矷矸矹矺矻矼矽矾矿碀碁碂碃碄碅碆碇碈碉碊碋碌碍碎碏碐碑碒碓碔碕碖碗碘碙碚碛碜碝碞碟碠碡碢碣碤碥碦碧碨碩碪碫碬碭碮碯碰碱碲碳碴碵碶碷碸碹確碻碼碽碾碿磀磁磂磃磄磅磆磇磈磉磊磋磌磍磎磏磐磑磒磓磔磕磖磗磘磙磚磛磜磝磞磟磠磡磢磣磤磥磦磧磨磩磪磫磬磭磮磯磰磱磲磳磴磵磶磷磸磹磺磻磼磽磾磿禀禁禂禃禄禅禆禇禈禉禊禋禌禍禎福禐禑禒禓禔禕禖禗禘禙禚禛禜禝禞禟禠禡禢禣禤禥禦禧禨禩禪禫禬禭禮禯禰禱禲禳禴禵禶禷禸禹禺离禼禽禾禿秀私秂秃秄秅秆秇秈秉秊秋秌种秎秏秐科秒秓秔秕秖秗秘秙秚秛秜秝秞租秠秡秢秣秤秥秦秧秨秩秪秫秬秭秮积称秱秲秳秴秵秶秷秸秹秺移秼秽秾秿窀突窂窃窄窅窆窇窈窉窊窋窌窍窎窏窐窑窒窓窔窕窖窗窘窙窚窛窜窝窞窟窠窡窢窣窤窥窦窧窨窩窪窫窬窭窮窯窰窱窲窳窴窵窶窷窸窹窺窻窼窽窾窿竀竁竂竃竄竅竆竇竈竉竊立竌竍竎竏竐竑竒竓竔竕竖竗竘站竚竛竜竝竞竟章竡竢竣竤童竦竧竨竩竪竫竬竭竮端竰竱竲竳竴竵競竷竸竹竺竻竼竽竾竿简箁箂箃箄箅箆箇箈" \o
    "箉箊箋箌箍箎箏箐箑箒箓箔箕箖算箘箙箚箛箜箝箞箟箠管箢箣箤箥箦箧箨箩箪箫箬箭箮箯箰箱箲箳箴箵箶箷箸箹箺箻箼箽箾箿節篁篂篃範篅篆篇篈築篊篋篌篍篎篏篐篑篒篓篔篕篖篗篘篙篚篛篜篝篞篟篠篡篢篣篤篥篦篧篨篩篪篫篬篭篮篯篰篱篲篳篴篵篶篷篸篹篺篻篼篽篾篿粀粁粂粃粄粅粆粇粈粉粊粋粌粍粎粏粐粑粒粓粔粕粖粗粘粙粚粛粜粝粞粟粠粡粢粣粤粥粦粧粨粩粪粫粬粭粮粯粰粱粲粳粴粵粶粷粸粹粺粻粼粽精粿糀糁糂糃糄糅糆糇糈糉糊糋糌糍糎糏糐糑糒糓糔糕糖糗糘糙糚糛糜糝糞糟糠糡糢糣糤糥糦糧糨糩糪糫糬糭糮糯糰糱糲糳糴糵糶糷糸糹糺系糼糽糾糿綀綁綂綃綄綅綆綇綈綉綊綋綌綍綎綏綐綑綒經綔綕綖綗綘継続綛綜綝綞綟綠綡綢綣綤綥綦綧綨綩綪綫綬維綮綯綰綱網綳綴綵綶綷綸綹綺綻綼綽綾綿緀緁緂緃緄緅緆緇緈緉緊緋緌緍緎総緐緑緒緓緔緕緖緗緘緙線緛緜緝緞緟締緡緢緣緤緥緦緧編緩緪緫緬緭緮緯緰緱緲緳練緵緶緷緸緹緺緻緼緽緾緿纀纁纂纃纄纅纆纇纈纉纊纋續纍纎纏纐纑纒纓纔纕纖纗纘纙纚纛纜纝纞纟纠纡红纣纤纥约级纨纩纪纫纬纭纮纯纰纱纲纳纴纵纶纷纸纹纺纻纼纽纾线绀绁绂练组绅细织终绉绊绋绌绍绎经绐绑绒结绔绕绖绗绘给绚绛络绝绞统绠绡绢绣绤绥绦继绨绩绪绫绬续绮绯绰绱绲绳维绵绶绷绸绹绺绻综绽绾绿羀羁羂羃羄羅羆羇羈羉羊羋羌羍美羏羐羑羒羓羔羕羖羗羘羙羚羛羜羝羞羟羠羡羢羣群羥羦羧羨義羪羫羬羭羮羯羰羱羲羳羴羵羶羷羸羹羺羻羼羽羾羿翀翁翂翃翄翅翆翇翈翉翊翋翌翍翎翏翐翑習翓翔翕翖翗翘翙翚翛翜翝翞翟翠翡翢翣翤翥翦翧翨翩翪翫翬翭翮翯翰翱翲翳翴翵翶翷翸翹翺翻翼翽翾翿肀肁肂肃肄肅肆肇肈肉肊肋肌肍肎肏肐肑肒肓肔肕肖肗肘肙肚肛肜肝肞肟肠股肢肣肤肥肦肧肨肩肪肫肬肭肮肯肰肱育肳肴肵肶肷肸肹肺肻肼肽肾肿胀胁胂胃胄胅胆胇胈胉胊胋背胍胎胏胐胑胒胓胔胕胖胗胘胙胚胛胜胝胞胟胠胡胢胣胤胥胦胧胨胩胪胫胬胭胮胯胰胱胲胳胴胵胶胷胸胹胺胻胼能胾胿膀膁膂膃膄膅膆膇膈膉膊膋膌膍膎膏膐膑膒膓膔膕膖膗膘膙膚膛膜膝膞膟膠膡膢膣膤膥膦膧膨膩膪膫膬膭膮膯膰膱膲膳膴膵膶膷膸膹膺膻膼膽膾膿臀臁臂臃臄臅臆臇臈臉臊臋臌臍臎臏臐臑臒臓臔臕臖臗臘臙臚臛臜臝臞臟臠臡臢臣臤臥臦臧臨臩自臫臬臭臮臯臰臱臲至致臵臶臷臸臹臺臻臼臽臾臿芀芁节芃芄芅芆芇芈芉芊芋芌芍芎芏芐芑芒芓芔芕芖芗芘芙芚芛芜芝芞芟芠芡芢芣芤芥芦芧芨芩芪芫芬芭芮芯芰花芲芳芴芵芶芷芸芹芺芻芼芽芾芿苀苁苂苃苄苅苆苇苈苉苊苋苌苍苎苏苐苑苒苓苔苕苖苗苘苙苚苛苜苝苞苟苠苡苢苣苤若苦苧苨苩苪苫苬苭苮苯苰英苲苳苴苵苶苷苸苹苺苻苼苽苾苿莀莁莂莃莄莅莆莇莈" \o
    "莉莊莋莌莍莎莏莐莑莒莓莔莕莖莗莘莙莚莛莜莝莞莟莠莡莢莣莤莥莦莧莨莩莪莫莬莭莮莯莰莱莲莳莴莵莶获莸莹莺莻莼莽莾莿菀菁菂菃菄菅菆菇菈菉菊菋菌菍菎菏菐菑菒菓菔菕菖菗菘菙菚菛菜菝菞菟菠菡菢菣菤菥菦菧菨菩菪菫菬菭菮華菰菱菲菳菴菵菶菷菸菹菺菻菼菽菾菿蒀蒁蒂蒃蒄蒅蒆蒇蒈蒉蒊蒋蒌蒍蒎蒏蒐蒑蒒蒓蒔蒕蒖蒗蒘蒙蒚蒛蒜蒝蒞蒟蒠蒡蒢蒣蒤蒥蒦蒧蒨蒩蒪蒫蒬蒭蒮蒯蒰蒱蒲蒳蒴蒵蒶蒷蒸蒹蒺蒻蒼蒽蒾蒿蓀蓁蓂蓃蓄蓅蓆蓇蓈蓉蓊蓋蓌蓍蓎蓏蓐蓑蓒蓓蓔蓕蓖蓗蓘蓙蓚蓛蓜蓝蓞蓟蓠蓡蓢蓣蓤蓥蓦蓧蓨蓩蓪蓫蓬蓭蓮蓯蓰蓱蓲蓳蓴蓵蓶蓷蓸蓹蓺蓻蓼蓽蓾蓿薀薁薂薃薄薅薆薇薈薉薊薋薌薍薎薏薐薑薒薓薔薕薖薗薘薙薚薛薜薝薞薟薠薡薢薣薤薥薦薧薨薩薪薫薬薭薮薯薰薱薲薳薴薵薶薷薸薹薺薻薼薽薾薿藀藁藂藃藄藅藆藇藈藉藊藋藌藍藎藏藐藑藒藓藔藕藖藗藘藙藚藛藜藝藞藟藠藡藢藣藤藥藦藧藨藩藪藫藬藭藮藯藰藱藲藳藴藵藶藷藸藹藺藻藼藽藾藿蚀蚁蚂蚃蚄蚅蚆蚇蚈蚉蚊蚋蚌蚍蚎蚏蚐蚑蚒蚓蚔蚕蚖蚗蚘蚙蚚蚛蚜蚝蚞蚟蚠蚡蚢蚣蚤蚥蚦蚧蚨蚩蚪蚫蚬蚭蚮蚯蚰蚱蚲蚳蚴蚵蚶蚷蚸蚹蚺蚻蚼蚽蚾蚿蛀蛁蛂蛃蛄蛅蛆蛇蛈蛉蛊蛋蛌蛍蛎蛏蛐蛑蛒蛓蛔蛕蛖蛗蛘蛙蛚蛛蛜蛝蛞蛟蛠蛡蛢蛣蛤蛥蛦蛧蛨蛩蛪蛫蛬蛭蛮蛯蛰蛱蛲蛳蛴蛵蛶蛷蛸蛹蛺蛻蛼蛽蛾蛿螀螁螂螃螄螅螆螇螈螉螊螋螌融螎螏螐螑螒螓螔螕螖螗螘螙螚螛螜螝螞螟螠螡螢螣螤螥螦螧螨螩螪螫螬螭螮螯螰螱螲螳螴螵螶螷螸螹螺螻螼螽螾螿蟀蟁蟂蟃蟄蟅蟆蟇蟈蟉蟊蟋蟌蟍蟎蟏蟐蟑蟒蟓蟔蟕蟖蟗蟘蟙蟚蟛蟜蟝蟞蟟蟠蟡蟢蟣蟤蟥蟦蟧蟨蟩蟪蟫蟬蟭蟮蟯蟰蟱蟲蟳蟴蟵蟶蟷蟸蟹蟺蟻蟼蟽蟾蟿袀袁袂袃袄袅袆袇袈袉袊袋袌袍袎袏袐袑袒袓袔袕袖袗袘袙袚袛袜袝袞袟袠袡袢袣袤袥袦袧袨袩袪被袬袭袮袯袰袱袲袳袴袵袶袷袸袹袺袻袼袽袾袿裀裁裂裃裄装裆裇裈裉裊裋裌裍裎裏裐裑裒裓裔裕裖裗裘裙裚裛補裝裞裟裠裡裢裣裤裥裦裧裨裩裪裫裬裭裮裯裰裱裲裳裴裵裶裷裸裹裺裻裼製裾裿覀要覂覃覄覅覆覇覈覉覊見覌覍覎規覐覑覒覓覔覕視覗覘覙覚覛覜覝覞覟覠覡覢覣覤覥覦覧覨覩親覫覬覭覮覯覰覱覲観覴覵覶覷覸覹覺覻覼覽覾覿觀见观觃规觅视觇览觉觊觋觌觍觎觏觐觑角觓觔觕觖觗觘觙觚觛觜觝觞觟觠觡觢解觤觥触觧觨觩觪觫觬觭觮觯觰觱觲觳觴觵觶觷觸觹觺觻觼觽觾觿誀誁誂誃誄誅誆誇誈誉誊誋誌認誎誏誐誑誒誓誔誕誖誗誘誙誚誛誜誝語誟誠誡誢誣誤誥誦誧誨誩說誫説読誮誯誰誱課誳誴誵誶誷誸誹誺誻誼誽誾調諀諁諂諃諄諅諆談諈諉諊請諌諍諎諏諐諑諒諓諔諕論諗諘諙諚諛諜諝諞諟諠諡諢諣諤諥諦諧諨諩諪諫諬諭諮諯諰諱諲諳諴諵諶諷諸諹諺諻諼諽諾諿讀讁讂讃讄讅讆讇讈" \o
    "讉變讋讌讍讎讏讐讑讒讓讔讕讖讗讘讙讚讛讜讝讞讟讠计订讣认讥讦讧讨让讪讫讬训议讯记讱讲讳讴讵讶讷许讹论讻讼讽设访诀证诂诃评诅识诇诈诉诊诋诌词诎诏诐译诒诓诔试诖诗诘诙诚诛诜话诞诟诠诡询诣诤该详诧诨诩诪诫诬语诮误诰诱诲诳说诵诶请诸诹诺读诼诽课诿貀貁貂貃貄貅貆貇貈貉貊貋貌貍貎貏貐貑貒貓貔貕貖貗貘貙貚貛貜貝貞貟負財貢貣貤貥貦貧貨販貪貫責貭貮貯貰貱貲貳貴貵貶買貸貹貺費貼貽貾貿賀賁賂賃賄賅賆資賈賉賊賋賌賍賎賏賐賑賒賓賔賕賖賗賘賙賚賛賜賝賞賟賠賡賢賣賤賥賦賧賨賩質賫賬賭賮賯賰賱賲賳賴賵賶賷賸賹賺賻購賽賾賿趀趁趂趃趄超趆趇趈趉越趋趌趍趎趏趐趑趒趓趔趕趖趗趘趙趚趛趜趝趞趟趠趡趢趣趤趥趦趧趨趩趪趫趬趭趮趯趰趱趲足趴趵趶趷趸趹趺趻趼趽趾趿跀跁跂跃跄跅跆跇跈跉跊跋跌跍跎跏跐跑跒跓跔跕跖跗跘跙跚跛跜距跞跟跠跡跢跣跤跥跦跧跨跩跪跫跬跭跮路跰跱跲跳跴践跶跷跸跹跺跻跼跽跾跿躀躁躂躃躄躅躆躇躈躉躊躋躌躍躎躏躐躑躒躓躔躕躖躗躘躙躚躛躜躝躞躟躠躡躢躣躤躥躦躧躨躩躪身躬躭躮躯躰躱躲躳躴躵躶躷躸躹躺躻躼躽躾躿軀軁軂軃軄軅軆軇軈軉車軋軌軍軎軏軐軑軒軓軔軕軖軗軘軙軚軛軜軝軞軟軠軡転軣軤軥軦軧軨軩軪軫軬軭軮軯軰軱軲軳軴軵軶軷軸軹軺軻軼軽軾軿辀辁辂较辄辅辆辇辈辉辊辋辌辍辎辏辐辑辒输辔辕辖辗辘辙辚辛辜辝辞辟辠辡辢辣辤辥辦辧辨辩辪辫辬辭辮辯辰辱農辳辴辵辶辷辸边辺辻込辽达辿迀迁迂迃迄迅迆过迈迉迊迋迌迍迎迏运近迒迓返迕迖迗还这迚进远违连迟迠迡迢迣迤迥迦迧迨迩迪迫迬迭迮迯述迱迲迳迴迵迶迷迸迹迺迻迼追迾迿邀邁邂邃還邅邆邇邈邉邊邋邌邍邎邏邐邑邒邓邔邕邖邗邘邙邚邛邜邝邞邟邠邡邢那邤邥邦邧邨邩邪邫邬邭邮邯邰邱邲邳邴邵邶邷邸邹邺邻邼邽邾邿郀郁郂郃郄郅郆郇郈郉郊郋郌郍郎郏郐郑郒郓郔郕郖郗郘郙郚郛郜郝郞郟郠郡郢郣郤郥郦郧部郩郪郫郬郭郮郯郰郱郲郳郴郵郶郷郸郹郺郻郼都郾郿醀醁醂醃醄醅醆醇醈醉醊醋醌醍醎醏醐醑醒醓醔醕醖醗醘醙醚醛醜醝醞醟醠醡醢醣醤醥醦醧醨醩醪醫醬醭醮醯醰醱醲醳醴醵醶醷醸醹醺醻醼醽醾醿釀釁釂釃釄釅釆采釈釉释釋里重野量釐金釒釓釔釕釖釗釘釙釚釛釜針釞釟釠釡釢釣釤釥釦釧釨釩釪釫釬釭釮釯釰釱釲釳釴釵釶釷釸釹釺釻釼釽釾釿銀銁銂銃銄銅銆銇銈銉銊銋銌銍銎銏銐銑銒銓銔銕銖銗銘銙銚銛銜銝銞銟銠銡銢銣銤銥銦銧銨銩銪銫銬銭銮銯銰銱銲銳銴銵銶銷銸銹銺銻銼銽銾銿鋀鋁鋂鋃鋄鋅鋆鋇鋈鋉鋊鋋鋌鋍鋎鋏鋐鋑鋒鋓鋔鋕鋖鋗鋘鋙鋚鋛鋜鋝鋞鋟鋠鋡鋢鋣鋤鋥鋦鋧鋨鋩鋪鋫鋬鋭鋮鋯鋰鋱鋲鋳鋴鋵鋶鋷鋸鋹鋺鋻鋼鋽鋾鋿鎀鎁鎂鎃鎄鎅鎆鎇鎈" \o
    "鎉鎊鎋鎌鎍鎎鎏鎐鎑鎒鎓鎔鎕鎖鎗鎘鎙鎚鎛鎜鎝鎞鎟鎠鎡鎢鎣鎤鎥鎦鎧鎨鎩鎪鎫鎬鎭鎮鎯鎰鎱鎲鎳鎴鎵鎶鎷鎸鎹鎺鎻鎼鎽鎾鎿鏀鏁鏂鏃鏄鏅鏆鏇鏈鏉鏊鏋鏌鏍鏎鏏鏐鏑鏒鏓鏔鏕鏖鏗鏘鏙鏚鏛鏜鏝鏞鏟鏠鏡鏢鏣鏤鏥鏦鏧鏨鏩鏪鏫鏬鏭鏮鏯鏰鏱鏲鏳鏴鏵鏶鏷鏸鏹鏺鏻鏼鏽鏾鏿钀钁钂钃钄钅钆钇针钉钊钋钌钍钎钏钐钑钒钓钔钕钖钗钘钙钚钛钜钝钞钟钠钡钢钣钤钥钦钧钨钩钪钫钬钭钮钯钰钱钲钳钴钵钶钷钸钹钺钻钼钽钾钿铀铁铂铃铄铅铆铇铈铉铊铋铌铍铎铏铐铑铒铓铔铕铖铗铘铙铚铛铜铝铞铟铠铡铢铣铤铥铦铧铨铩铪铫铬铭铮铯铰铱铲铳铴铵银铷铸铹铺铻铼铽链铿門閁閂閃閄閅閆閇閈閉閊開閌閍閎閏閐閑閒間閔閕閖閗閘閙閚閛閜閝閞閟閠閡関閣閤閥閦閧閨閩閪閫閬閭閮閯閰閱閲閳閴閵閶閷閸閹閺閻閼閽閾閿闀闁闂闃闄闅闆闇闈闉闊闋闌闍闎闏闐闑闒闓闔闕闖闗闘闙闚闛關闝闞闟闠闡闢闣闤闥闦闧门闩闪闫闬闭问闯闰闱闲闳间闵闶闷闸闹闺闻闼闽闾闿隀隁隂隃隄隅隆隇隈隉隊隋隌隍階随隐隑隒隓隔隕隖隗隘隙隚際障隝隞隟隠隡隢隣隤隥隦隧隨隩險隫隬隭隮隯隰隱隲隳隴隵隶隷隸隹隺隻隼隽难隿雀雁雂雃雄雅集雇雈雉雊雋雌雍雎雏雐雑雒雓雔雕雖雗雘雙雚雛雜雝雞雟雠雡離難雤雥雦雧雨雩雪雫雬雭雮雯雰雱雲雳雴雵零雷雸雹雺電雼雽雾雿鞀鞁鞂鞃鞄鞅鞆鞇鞈鞉鞊鞋鞌鞍鞎鞏鞐鞑鞒鞓鞔鞕鞖鞗鞘鞙鞚鞛鞜鞝鞞鞟鞠鞡鞢鞣鞤鞥鞦鞧鞨鞩鞪鞫鞬鞭鞮鞯鞰鞱鞲鞳鞴鞵鞶鞷鞸鞹鞺鞻鞼鞽鞾鞿韀韁韂韃韄韅韆韇韈韉韊韋韌韍韎韏韐韑韒韓韔韕韖韗韘韙韚韛韜韝韞韟韠韡韢韣韤韥韦韧韨韩韪韫韬韭韮韯韰韱韲音韴韵韶韷韸韹韺韻韼韽韾響颀颁颂颃预颅领颇颈颉颊颋颌颍颎颏颐频颒颓颔颕颖颗题颙颚颛颜额颞颟颠颡颢颣颤颥颦颧風颩颪颫颬颭颮颯颰颱颲颳颴颵颶颷颸颹颺颻颼颽颾颿飀飁飂飃飄飅飆飇飈飉飊飋飌飍风飏飐飑飒飓飔飕飖飗飘飙飚飛飜飝飞食飠飡飢飣飤飥飦飧飨飩飪飫飬飭飮飯飰飱飲飳飴飵飶飷飸飹飺飻飼飽飾飿馀馁馂馃馄馅馆馇馈馉馊馋馌馍馎馏馐馑馒馓馔馕首馗馘香馚馛馜馝馞馟馠馡馢馣馤馥馦馧馨馩馪馫馬馭馮馯馰馱馲馳馴馵馶馷馸馹馺馻馼馽馾馿駀駁駂駃駄駅駆駇駈駉駊駋駌駍駎駏駐駑駒駓駔駕駖駗駘駙駚駛駜駝駞駟駠駡駢駣駤駥駦駧駨駩駪駫駬駭駮駯駰駱駲駳駴駵駶駷駸駹駺駻駼駽駾駿骀骁骂骃骄骅骆骇骈骉骊骋验骍骎骏骐骑骒骓骔骕骖骗骘骙骚骛骜骝骞骟骠骡骢骣骤骥骦骧骨骩骪骫骬骭骮骯骰骱骲骳骴骵骶骷骸骹骺骻骼骽骾骿髀髁髂髃髄髅髆髇髈髉髊髋髌髍髎髏髐髑髒髓體髕髖髗高髙髚髛髜髝髞髟髠髡髢髣髤髥髦髧髨髩髪髫髬髭髮髯髰髱髲髳髴髵髶髷髸髹髺髻髼髽髾髿鮀鮁鮂鮃鮄鮅鮆鮇鮈" \o
    "鮉鮊鮋鮌鮍鮎鮏鮐鮑鮒鮓鮔鮕鮖鮗鮘鮙鮚鮛鮜鮝鮞鮟鮠鮡鮢鮣鮤鮥鮦鮧鮨鮩鮪鮫鮬鮭鮮鮯鮰鮱鮲鮳鮴鮵鮶鮷鮸鮹鮺鮻鮼鮽鮾鮿鯀鯁鯂鯃鯄鯅鯆鯇鯈鯉鯊鯋鯌鯍鯎鯏鯐鯑鯒鯓鯔鯕鯖鯗鯘鯙鯚鯛鯜鯝鯞鯟鯠鯡鯢鯣鯤鯥鯦鯧鯨鯩鯪鯫鯬鯭鯮鯯鯰鯱鯲鯳鯴鯵鯶鯷鯸鯹鯺鯻鯼鯽鯾鯿鲀鲁鲂鲃鲄鲅鲆鲇鲈鲉鲊鲋鲌鲍鲎鲏鲐鲑鲒鲓鲔鲕鲖鲗鲘鲙鲚鲛鲜鲝鲞鲟鲠鲡鲢鲣鲤鲥鲦鲧鲨鲩鲪鲫鲬鲭鲮鲯鲰鲱鲲鲳鲴鲵鲶鲷鲸鲹鲺鲻鲼鲽鲾鲿鳀鳁鳂鳃鳄鳅鳆鳇鳈鳉鳊鳋鳌鳍鳎鳏鳐鳑鳒鳓鳔鳕鳖鳗鳘鳙鳚鳛鳜鳝鳞鳟鳠鳡鳢鳣鳤鳥鳦鳧鳨鳩鳪鳫鳬鳭鳮鳯鳰鳱鳲鳳鳴鳵鳶鳷鳸鳹鳺鳻鳼鳽鳾鳿鶀鶁鶂鶃鶄鶅鶆鶇鶈鶉鶊鶋鶌鶍鶎鶏鶐鶑鶒鶓鶔鶕鶖鶗鶘鶙鶚鶛鶜鶝鶞鶟鶠鶡鶢鶣鶤鶥鶦鶧鶨鶩鶪鶫鶬鶭鶮鶯鶰鶱鶲鶳鶴鶵鶶鶷鶸鶹鶺鶻鶼鶽鶾鶿鷀鷁鷂鷃鷄鷅鷆鷇鷈鷉鷊鷋鷌鷍鷎鷏鷐鷑鷒鷓鷔鷕鷖鷗鷘鷙鷚鷛鷜鷝鷞鷟鷠鷡鷢鷣鷤鷥鷦鷧鷨鷩鷪鷫鷬鷭鷮鷯鷰鷱鷲鷳鷴鷵鷶鷷鷸鷹鷺鷻鷼鷽鷾鷿麀麁麂麃麄麅麆麇麈麉麊麋麌麍麎麏麐麑麒麓麔麕麖麗麘麙麚麛麜麝麞麟麠麡麢麣麤麥麦麧麨麩麪麫麬麭麮麯麰麱麲麳麴麵麶麷麸麹麺麻麼麽麾麿黀黁黂黃黄黅黆黇黈黉黊黋黌黍黎黏黐黑黒黓黔黕黖黗默黙黚黛黜黝點黟黠黡黢黣黤黥黦黧黨黩黪黫黬黭黮黯黰黱黲黳黴黵黶黷黸黹黺黻黼黽黾黿龀龁龂龃龄龅龆龇龈龉龊龋龌龍龎龏龐龑龒龓龔龕龖龗龘龙龚龛龜龝龞龟龠龡龢龣龤龥龦龧龨龩龪龫龬龭龮龯龰龱龲龳龴龵龶龷龸龹龺龻龼龽龾龿鿀鿁鿂鿃鿄鿅鿆鿇鿈鿉鿊鿋鿌鿍鿎鿏鿐鿑鿒鿓鿔鿕鿖鿗鿘鿙鿚鿛鿜鿝鿞鿟鿠鿡鿢鿣鿤鿥鿦鿧鿨鿩鿪鿫鿬鿭鿮鿯鿰鿱鿲鿳鿴鿵鿶鿷鿸鿹鿺鿻鿼鿽鿾鿿ꂀꂁꂂꂃꂄꂅꂆꂇꂈꂉꂊꂋꂌꂍꂎꂏꂐꂑꂒꂓꂔꂕꂖꂗꂘꂙꂚꂛꂜꂝꂞꂟꂠꂡꂢꂣꂤꂥꂦꂧꂨꂩꂪꂫꂬꂭꂮꂯꂰꂱꂲꂳꂴꂵꂶꂷꂸꂹꂺꂻꂼꂽꂾꂿꃀꃁꃂꃃꃄꃅꃆꃇꃈꃉꃊꃋꃌꃍꃎꃏꃐꃑꃒꃓꃔꃕꃖꃗꃘꃙꃚꃛꃜꃝꃞꃟꃠꃡꃢꃣꃤꃥꃦꃧꃨꃩꃪꃫꃬꃭꃮꃯꃰꃱꃲꃳꃴꃵꃶꃷꃸꃹꃺꃻꃼꃽꃾꃿꆀꆁꆂꆃꆄꆅꆆꆇꆈꆉꆊꆋꆌꆍꆎꆏꆐꆑꆒꆓꆔꆕꆖꆗꆘꆙꆚꆛꆜꆝꆞꆟꆠꆡꆢꆣꆤꆥꆦꆧꆨꆩꆪꆫꆬꆭꆮꆯꆰꆱꆲꆳꆴꆵꆶꆷꆸꆹꆺꆻꆼꆽꆾꆿꇀꇁꇂꇃꇄꇅꇆꇇꇈꇉꇊꇋꇌꇍꇎꇏꇐꇑꇒꇓꇔꇕꇖꇗꇘꇙꇚꇛꇜꇝꇞꇟꇠꇡꇢꇣꇤꇥꇦꇧꇨꇩꇪꇫꇬꇭꇮꇯꇰꇱꇲꇳꇴꇵꇶꇷꇸꇹꇺꇻꇼꇽꇾꇿꊀꊁꊂꊃꊄꊅꊆꊇꊈꊉꊊꊋꊌꊍꊎꊏꊐꊑꊒꊓꊔꊕꊖꊗꊘꊙꊚꊛꊜꊝꊞꊟꊠꊡꊢꊣꊤꊥꊦꊧꊨꊩꊪꊫꊬꊭꊮꊯꊰꊱꊲꊳꊴꊵꊶꊷꊸꊹꊺꊻꊼꊽꊾꊿꋀꋁꋂꋃꋄꋅꋆꋇꋈꋉꋊꋋꋌꋍꋎꋏꋐꋑꋒꋓꋔꋕꋖꋗꋘꋙꋚꋛꋜꋝꋞꋟꋠꋡꋢꋣꋤꋥꋦꋧꋨꋩꋪꋫꋬꋭꋮꋯꋰꋱꋲꋳꋴꋵꋶꋷꋸꋹꋺꋻꋼꋽꋾꋿꎀꎁꎂꎃꎄꎅꎆꎇꎈ" \o
    "ꎉꎊꎋꎌꎍꎎꎏꎐꎑꎒꎓꎔꎕꎖꎗꎘꎙꎚꎛꎜꎝꎞꎟꎠꎡꎢꎣꎤꎥꎦꎧꎨꎩꎪꎫꎬꎭꎮꎯꎰꎱꎲꎳꎴꎵꎶꎷꎸꎹꎺꎻꎼꎽꎾꎿꏀꏁꏂꏃꏄꏅꏆꏇꏈꏉꏊꏋꏌꏍꏎꏏꏐꏑꏒꏓꏔꏕꏖꏗꏘꏙꏚꏛꏜꏝꏞꏟꏠꏡꏢꏣꏤꏥꏦꏧꏨꏩꏪꏫꏬꏭꏮꏯꏰꏱꏲꏳꏴꏵꏶꏷꏸꏹꏺꏻꏼꏽꏾꏿꒀꒁꒂꒃꒄꒅꒆꒇꒈꒉꒊꒋꒌꓐꓑꓒꓓꓔꓕꓖꓗꓘꓙꓚꓛꓜꓝꓞꓟꓠꓡꓢꓣꓤꓥꓦꓧꓨꓩꓪꓫꓬꓭꓮꓯꓰꓱꓲꓳꓴꓵꓶꓷꓸꓹꓺꓻꓼꓽꖀꖁꖂꖃꖄꖅꖆꖇꖈꖉꖊꖋꖌꖍꖎꖏꖐꖑꖒꖓꖔꖕꖖꖗꖘꖙꖚꖛꖜꖝꖞꖟꖠꖡꖢꖣꖤꖥꖦꖧꖨꖩꖪꖫꖬꖭꖮꖯꖰꖱꖲꖳꖴꖵꖶꖷꖸꖹꖺꖻꖼꖽꖾꖿꗀꗁꗂꗃꗄꗅꗆꗇꗈꗉꗊꗋꗌꗍꗎꗏꗐꗑꗒꗓꗔꗕꗖꗗꗘꗙꗚꗛꗜꗝꗞꗟꗠꗡꗢꗣꗤꗥꗦꗧꗨꗩꗪꗫꗬꗭꗮꗯꗰꗱꗲꗳꗴꗵꗶꗷꗸꗹꗺꗻꗼꗽꗾꗿꚀꚁꚂꚃꚄꚅꚆꚇꚈꚉꚊꚋꚌꚍꚎꚏꚐꚑꚒꚓꚔꚕꚖꚗꚘꚙꚚꚛꚜꚝꚠꚡꚢꚣꚤꚥꚦꚧꚨꚩꚪꚫꚬꚭꚮꚯꚰꚱꚲꚳꚴꚵꚶꚷꚸꚹꚺꚻꚼꚽꚾꚿꛀꛁꛂꛃꛄꛅꛆꛇꛈꛉꛊꛋꛌꛍꛎꛏꛐꛑꛒꛓꛔꛕꛖꛗꛘꛙꛚꛛꛜꛝꛞꛟꛠꛡꛢꛣꛤꛥꛦꛧꛨꛩꛪꛫꛬꛭꛮꛯꞀꞁꞂꞃꞄꞅꞆꞇꞈꞋꞌꞍꞎꞏꞐꞑꞒꞓꞔꞕꞖꞗꞘꞙꞚꞛꞜꞝꞞꞟꞠꞡꞢꞣꞤꞥꞦꞧꞨꞩꞪꞫꞬꞭꞮꞯꞰꞱꞲꞳꞴꞵꞶꞷꞸꞹꞺꞻꞼꞽꞾꞿꟀꟁꟂꟃꟄꟅꟆꟇꟈꟉꟊꟐꟑꟓꟕꟖꟗꟘꟙꟲꟳꟴꟵꟶꟷꟸꟹꟺꟻꟼꟽꟾꟿꢂꢃꢄꢅꢆꢇꢈꢉꢊꢋꢌꢍꢎꢏꢐꢑꢒꢓꢔꢕꢖꢗꢘꢙꢚꢛꢜꢝꢞꢟꢠꢡꢢꢣꢤꢥꢦꢧꢨꢩꢪꢫꢬꢭꢮꢯꢰꢱꢲꢳ꣐꣑꣒꣓꣔꣕꣖꣗꣘꣙ꣲꣳꣴꣵꣶꣷꣻꣽꣾꦄꦅꦆꦇꦈꦉꦊꦋꦌꦍꦎꦏꦐꦑꦒꦓꦔꦕꦖꦗꦘꦙꦚꦛꦜꦝꦞꦟꦠꦡꦢꦣꦤꦥꦦꦧꦨꦩꦪꦫꦬꦭꦮꦯꦰꦱꦲꧏ꧐꧑꧒꧓꧔꧕꧖꧗꧘꧙ꧠꧡꧢꧣꧤꧦꧧꧨꧩꧪꧫꧬꧭꧮꧯ꧰꧱꧲꧳꧴꧵꧶꧷꧸꧹ꧺꧻꧼꧽꧾꪀꪁꪂꪃꪄꪅꪆꪇꪈꪉꪊꪋꪌꪍꪎꪏꪐꪑꪒꪓꪔꪕꪖꪗꪘꪙꪚꪛꪜꪝꪞꪟꪠꪡꪢꪣꪤꪥꪦꪧꪨꪩꪪꪫꪬꪭꪮꪯꪱꪵꪶꪹꪺꪻꪼꪽꫀꫂꫛꫜꫝꫠꫡꫢꫣꫤꫥꫦꫧꫨꫩꫪꫲꫳꫴꮀꮁꮂꮃꮄꮅꮆꮇꮈꮉꮊꮋꮌꮍꮎꮏꮐꮑꮒꮓꮔꮕꮖꮗꮘꮙꮚꮛꮜꮝꮞꮟꮠꮡꮢꮣꮤꮥꮦꮧꮨꮩꮪꮫꮬꮭꮮꮯꮰꮱꮲꮳꮴꮵꮶꮷꮸꮹꮺꮻꮼꮽꮾꮿꯀꯁꯂꯃꯄꯅꯆꯇꯈꯉꯊꯋꯌꯍꯎꯏꯐꯑꯒꯓꯔꯕꯖꯗꯘꯙꯚꯛꯜꯝꯞꯟꯠꯡꯢ꯰꯱꯲꯳꯴꯵꯶꯷꯸꯹검겁겂것겄겅겆겇겈겉겊겋게겍겎겏겐겑겒겓겔겕겖겗겘겙겚겛겜겝겞겟겠겡겢겣겤겥겦겧겨격겪겫견겭겮겯결겱겲겳겴겵겶겷겸겹겺겻겼경겾겿곀곁곂곃계곅곆곇곈곉곊곋곌곍곎곏곐곑곒곓곔곕곖곗곘곙곚곛곜곝곞곟고곡곢곣곤곥곦곧골곩곪곫곬곭곮곯곰곱곲곳곴공곶곷곸곹곺곻과곽곾곿궀궁궂궃궄궅궆궇궈궉궊궋권궍궎궏궐궑궒궓궔궕궖궗궘궙궚궛궜궝궞궟궠궡궢궣궤궥궦궧궨궩궪궫" \o
    "궬궭궮궯궰궱궲궳궴궵궶궷궸궹궺궻궼궽궾궿귀귁귂귃귄귅귆귇귈귉귊귋귌귍귎귏귐귑귒귓귔귕귖귗귘귙귚귛규귝귞귟균귡귢귣귤귥귦귧귨귩귪귫귬귭귮귯귰귱귲귳귴귵귶귷그극귺귻근귽귾귿꺀꺁꺂꺃꺄꺅꺆꺇꺈꺉꺊꺋꺌꺍꺎꺏꺐꺑꺒꺓꺔꺕꺖꺗꺘꺙꺚꺛꺜꺝꺞꺟꺠꺡꺢꺣꺤꺥꺦꺧꺨꺩꺪꺫꺬꺭꺮꺯꺰꺱꺲꺳꺴꺵꺶꺷꺸꺹꺺꺻꺼꺽꺾꺿껀껁껂껃껄껅껆껇껈껉껊껋껌껍껎껏껐껑껒껓껔껕껖껗께껙껚껛껜껝껞껟껠껡껢껣껤껥껦껧껨껩껪껫껬껭껮껯껰껱껲껳껴껵껶껷껸껹껺껻껼껽껾껿꾀꾁꾂꾃꾄꾅꾆꾇꾈꾉꾊꾋꾌꾍꾎꾏꾐꾑꾒꾓꾔꾕꾖꾗꾘꾙꾚꾛꾜꾝꾞꾟꾠꾡꾢꾣꾤꾥꾦꾧꾨꾩꾪꾫꾬꾭꾮꾯꾰꾱꾲꾳꾴꾵꾶꾷꾸꾹꾺꾻꾼꾽꾾꾿꿀꿁꿂꿃꿄꿅꿆꿇꿈꿉꿊꿋꿌꿍꿎꿏꿐꿑꿒꿓꿔꿕꿖꿗꿘꿙꿚꿛꿜꿝꿞꿟꿠꿡꿢꿣꿤꿥꿦꿧꿨꿩꿪꿫꿬꿭꿮꿯꿰꿱꿲꿳꿴꿵꿶꿷꿸꿹꿺꿻꿼꿽꿾꿿낀낁낂낃낄낅낆낇낈낉낊낋낌낍낎낏낐낑낒낓낔낕낖낗나낙낚낛난낝낞낟날낡낢낣낤낥낦낧남납낪낫났낭낮낯낰낱낲낳내낵낶낷낸낹낺낻낼낽낾낿냀냁냂냃냄냅냆냇냈냉냊냋냌냍냎냏냐냑냒냓냔냕냖냗냘냙냚냛냜냝냞냟냠냡냢냣냤냥냦냧냨냩냪냫냬냭냮냯냰냱냲냳냴냵냶냷냸냹냺냻냼냽냾냿놀놁놂놃놄놅놆놇놈놉놊놋놌농놎놏놐놑높놓놔놕놖놗놘놙놚놛놜놝놞놟놠놡놢놣놤놥놦놧놨놩놪놫놬놭놮놯놰놱놲놳놴놵놶놷놸놹놺놻놼놽놾놿뇀뇁뇂뇃뇄뇅뇆뇇뇈뇉뇊뇋뇌뇍뇎뇏뇐뇑뇒뇓뇔뇕뇖뇗뇘뇙뇚뇛뇜뇝뇞뇟뇠뇡뇢뇣뇤뇥뇦뇧뇨뇩뇪뇫뇬뇭뇮뇯뇰뇱뇲뇳뇴뇵뇶뇷뇸뇹뇺뇻뇼뇽뇾뇿늀늁늂늃늄늅늆늇늈늉늊늋늌늍늎늏느늑늒늓는늕늖늗늘늙늚늛늜늝늞늟늠늡늢늣늤능늦늧늨늩늪늫늬늭늮늯늰늱늲늳늴늵늶늷늸늹늺늻늼늽늾늿닀닁닂닃닄닅닆닇니닉닊닋닌닍닎닏닐닑닒닓닔닕닖닗님닙닚닛닜닝닞닟닠닡닢닣다닥닦닧단닩닪닫달닭닮닯닰닱닲닳담답닶닷닸당닺닻닼닽닾닿뎀뎁뎂뎃뎄뎅뎆뎇뎈뎉뎊뎋뎌뎍뎎뎏뎐뎑뎒뎓뎔뎕뎖뎗뎘뎙뎚뎛뎜뎝뎞뎟뎠뎡뎢뎣뎤뎥뎦뎧뎨뎩뎪뎫뎬뎭뎮뎯뎰뎱뎲뎳뎴뎵뎶뎷뎸뎹뎺뎻뎼뎽뎾뎿돀돁돂돃도독돆돇돈돉돊돋돌돍돎돏돐돑돒돓돔돕돖돗돘동돚돛돜돝돞돟돠돡돢돣돤돥돦돧돨돩돪돫돬돭돮돯돰돱돲돳돴돵돶돷돸돹돺돻돼돽돾돿뒀뒁뒂뒃뒄뒅뒆뒇뒈뒉뒊뒋뒌뒍뒎뒏뒐뒑뒒뒓뒔뒕뒖뒗뒘뒙뒚뒛뒜뒝뒞뒟뒠뒡뒢뒣뒤뒥뒦뒧뒨뒩뒪뒫뒬뒭뒮뒯뒰뒱뒲뒳뒴뒵뒶뒷뒸뒹뒺뒻뒼뒽뒾뒿듀듁듂듃듄듅듆듇듈듉듊듋듌듍듎듏듐듑듒듓듔듕듖듗듘듙듚듛드득듞듟든듡듢듣들듥듦듧듨듩듪듫듬듭듮듯듰등듲듳듴듵듶듷듸듹듺듻듼듽듾듿떀떁떂떃떄떅떆떇떈떉떊떋떌떍떎떏떐떑떒떓떔떕떖떗떘떙떚떛떜떝떞떟떠떡떢떣떤떥떦떧떨떩떪떫" \o
    "떬떭떮떯떰떱떲떳떴떵떶떷떸떹떺떻떼떽떾떿뗀뗁뗂뗃뗄뗅뗆뗇뗈뗉뗊뗋뗌뗍뗎뗏뗐뗑뗒뗓뗔뗕뗖뗗뗘뗙뗚뗛뗜뗝뗞뗟뗠뗡뗢뗣뗤뗥뗦뗧뗨뗩뗪뗫뗬뗭뗮뗯뗰뗱뗲뗳뗴뗵뗶뗷뗸뗹뗺뗻뗼뗽뗾뗿뚀뚁뚂뚃뚄뚅뚆뚇뚈뚉뚊뚋뚌뚍뚎뚏뚐뚑뚒뚓뚔뚕뚖뚗뚘뚙뚚뚛뚜뚝뚞뚟뚠뚡뚢뚣뚤뚥뚦뚧뚨뚩뚪뚫뚬뚭뚮뚯뚰뚱뚲뚳뚴뚵뚶뚷뚸뚹뚺뚻뚼뚽뚾뚿뛀뛁뛂뛃뛄뛅뛆뛇뛈뛉뛊뛋뛌뛍뛎뛏뛐뛑뛒뛓뛔뛕뛖뛗뛘뛙뛚뛛뛜뛝뛞뛟뛠뛡뛢뛣뛤뛥뛦뛧뛨뛩뛪뛫뛬뛭뛮뛯뛰뛱뛲뛳뛴뛵뛶뛷뛸뛹뛺뛻뛼뛽뛾뛿란랁랂랃랄랅랆랇랈랉랊랋람랍랎랏랐랑랒랓랔랕랖랗래랙랚랛랜랝랞랟랠랡랢랣랤랥랦랧램랩랪랫랬랭랮랯랰랱랲랳랴략랶랷랸랹랺랻랼랽랾랿럀럁럂럃럄럅럆럇럈량럊럋럌럍럎럏럐럑럒럓럔럕럖럗럘럙럚럛럜럝럞럟럠럡럢럣럤럥럦럧럨럩럪럫러럭럮럯런럱럲럳럴럵럶럷럸럹럺럻럼럽럾럿뢀뢁뢂뢃뢄뢅뢆뢇뢈뢉뢊뢋뢌뢍뢎뢏뢐뢑뢒뢓뢔뢕뢖뢗뢘뢙뢚뢛뢜뢝뢞뢟뢠뢡뢢뢣뢤뢥뢦뢧뢨뢩뢪뢫뢬뢭뢮뢯뢰뢱뢲뢳뢴뢵뢶뢷뢸뢹뢺뢻뢼뢽뢾뢿룀룁룂룃룄룅룆룇룈룉룊룋료룍룎룏룐룑룒룓룔룕룖룗룘룙룚룛룜룝룞룟룠룡룢룣룤룥룦룧루룩룪룫룬룭룮룯룰룱룲룳룴룵룶룷룸룹룺룻룼룽룾룿릀릁릂릃름릅릆릇릈릉릊릋릌릍릎릏릐릑릒릓릔릕릖릗릘릙릚릛릜릝릞릟릠릡릢릣릤릥릦릧릨릩릪릫리릭릮릯린릱릲릳릴릵릶릷릸릹릺릻림립릾릿맀링맂맃맄맅맆맇마막맊맋만맍많맏말맑맒맓맔맕맖맗맘맙맚맛맜망맞맟맠맡맢맣매맥맦맧맨맩맪맫맬맭맮맯맰맱맲맳맴맵맶맷맸맹맺맻맼맽맾맿몀몁몂몃몄명몆몇몈몉몊몋몌몍몎몏몐몑몒몓몔몕몖몗몘몙몚몛몜몝몞몟몠몡몢몣몤몥몦몧모목몪몫몬몭몮몯몰몱몲몳몴몵몶몷몸몹몺못몼몽몾몿뫀뫁뫂뫃뫄뫅뫆뫇뫈뫉뫊뫋뫌뫍뫎뫏뫐뫑뫒뫓뫔뫕뫖뫗뫘뫙뫚뫛뫜뫝뫞뫟뫠뫡뫢뫣뫤뫥뫦뫧뫨뫩뫪뫫뫬뫭뫮뫯뫰뫱뫲뫳뫴뫵뫶뫷뫸뫹뫺뫻뫼뫽뫾뫿뮀뮁뮂뮃뮄뮅뮆뮇뮈뮉뮊뮋뮌뮍뮎뮏뮐뮑뮒뮓뮔뮕뮖뮗뮘뮙뮚뮛뮜뮝뮞뮟뮠뮡뮢뮣뮤뮥뮦뮧뮨뮩뮪뮫뮬뮭뮮뮯뮰뮱뮲뮳뮴뮵뮶뮷뮸뮹뮺뮻뮼뮽뮾뮿므믁믂믃믄믅믆믇믈믉믊믋믌믍믎믏믐믑믒믓믔믕믖믗믘믙믚믛믜믝믞믟믠믡믢믣믤믥믦믧믨믩믪믫믬믭믮믯믰믱믲믳믴믵믶믷미믹믺믻민믽믾믿벀벁벂벃버벅벆벇번벉벊벋벌벍벎벏벐벑벒벓범법벖벗벘벙벚벛벜벝벞벟베벡벢벣벤벥벦벧벨벩벪벫벬벭벮벯벰벱벲벳벴벵벶벷벸벹벺벻벼벽벾벿변볁볂볃별볅볆볇볈볉볊볋볌볍볎볏볐병볒볓볔볕볖볗볘볙볚볛볜볝볞볟볠볡볢볣볤볥볦볧볨볩볪볫볬볭볮볯볰볱볲볳보복볶볷본볹볺볻볼볽볾볿부북붂붃분붅붆붇불붉붊붋붌붍붎붏붐붑붒붓붔붕붖붗붘붙붚붛붜붝붞붟붠붡붢붣붤붥붦붧붨붩붪붫" \o
    "붬붭붮붯붰붱붲붳붴붵붶붷붸붹붺붻붼붽붾붿뷀뷁뷂뷃뷄뷅뷆뷇뷈뷉뷊뷋뷌뷍뷎뷏뷐뷑뷒뷓뷔뷕뷖뷗뷘뷙뷚뷛뷜뷝뷞뷟뷠뷡뷢뷣뷤뷥뷦뷧뷨뷩뷪뷫뷬뷭뷮뷯뷰뷱뷲뷳뷴뷵뷶뷷뷸뷹뷺뷻뷼뷽뷾뷿뺀뺁뺂뺃뺄뺅뺆뺇뺈뺉뺊뺋뺌뺍뺎뺏뺐뺑뺒뺓뺔뺕뺖뺗뺘뺙뺚뺛뺜뺝뺞뺟뺠뺡뺢뺣뺤뺥뺦뺧뺨뺩뺪뺫뺬뺭뺮뺯뺰뺱뺲뺳뺴뺵뺶뺷뺸뺹뺺뺻뺼뺽뺾뺿뻀뻁뻂뻃뻄뻅뻆뻇뻈뻉뻊뻋뻌뻍뻎뻏뻐뻑뻒뻓뻔뻕뻖뻗뻘뻙뻚뻛뻜뻝뻞뻟뻠뻡뻢뻣뻤뻥뻦뻧뻨뻩뻪뻫뻬뻭뻮뻯뻰뻱뻲뻳뻴뻵뻶뻷뻸뻹뻺뻻뻼뻽뻾뻿뾀뾁뾂뾃뾄뾅뾆뾇뾈뾉뾊뾋뾌뾍뾎뾏뾐뾑뾒뾓뾔뾕뾖뾗뾘뾙뾚뾛뾜뾝뾞뾟뾠뾡뾢뾣뾤뾥뾦뾧뾨뾩뾪뾫뾬뾭뾮뾯뾰뾱뾲뾳뾴뾵뾶뾷뾸뾹뾺뾻뾼뾽뾾뾿뿀뿁뿂뿃뿄뿅뿆뿇뿈뿉뿊뿋뿌뿍뿎뿏뿐뿑뿒뿓뿔뿕뿖뿗뿘뿙뿚뿛뿜뿝뿞뿟뿠뿡뿢뿣뿤뿥뿦뿧뿨뿩뿪뿫뿬뿭뿮뿯뿰뿱뿲뿳뿴뿵뿶뿷뿸뿹뿺뿻뿼뿽뿾뿿삀삁삂삃삄삅삆삇삈삉삊삋삌삍삎삏삐삑삒삓삔삕삖삗삘삙삚삛삜삝삞삟삠삡삢삣삤삥삦삧삨삩삪삫사삭삮삯산삱삲삳살삵삶삷삸삹삺삻삼삽삾삿샀상샂샃샄샅샆샇새색샊샋샌샍샎샏샐샑샒샓샔샕샖샗샘샙샚샛샜생샞샟샠샡샢샣샤샥샦샧샨샩샪샫샬샭샮샯샰샱샲샳샴샵샶샷샸샹샺샻샼샽샾샿솀솁솂솃솄솅솆솇솈솉솊솋소속솎솏손솑솒솓솔솕솖솗솘솙솚솛솜솝솞솟솠송솢솣솤솥솦솧솨솩솪솫솬솭솮솯솰솱솲솳솴솵솶솷솸솹솺솻솼솽솾솿쇀쇁쇂쇃쇄쇅쇆쇇쇈쇉쇊쇋쇌쇍쇎쇏쇐쇑쇒쇓쇔쇕쇖쇗쇘쇙쇚쇛쇜쇝쇞쇟쇠쇡쇢쇣쇤쇥쇦쇧쇨쇩쇪쇫쇬쇭쇮쇯쇰쇱쇲쇳쇴쇵쇶쇷쇸쇹쇺쇻쇼쇽쇾쇿슀슁슂슃슄슅슆슇슈슉슊슋슌슍슎슏슐슑슒슓슔슕슖슗슘슙슚슛슜슝슞슟슠슡슢슣스슥슦슧슨슩슪슫슬슭슮슯슰슱슲슳슴습슶슷슸승슺슻슼슽슾슿싀싁싂싃싄싅싆싇싈싉싊싋싌싍싎싏싐싑싒싓싔싕싖싗싘싙싚싛시식싞싟신싡싢싣실싥싦싧싨싩싪싫심십싮싯싰싱싲싳싴싵싶싷싸싹싺싻싼싽싾싿쎀쎁쎂쎃쎄쎅쎆쎇쎈쎉쎊쎋쎌쎍쎎쎏쎐쎑쎒쎓쎔쎕쎖쎗쎘쎙쎚쎛쎜쎝쎞쎟쎠쎡쎢쎣쎤쎥쎦쎧쎨쎩쎪쎫쎬쎭쎮쎯쎰쎱쎲쎳쎴쎵쎶쎷쎸쎹쎺쎻쎼쎽쎾쎿쏀쏁쏂쏃쏄쏅쏆쏇쏈쏉쏊쏋쏌쏍쏎쏏쏐쏑쏒쏓쏔쏕쏖쏗쏘쏙쏚쏛쏜쏝쏞쏟쏠쏡쏢쏣쏤쏥쏦쏧쏨쏩쏪쏫쏬쏭쏮쏯쏰쏱쏲쏳쏴쏵쏶쏷쏸쏹쏺쏻쏼쏽쏾쏿쒀쒁쒂쒃쒄쒅쒆쒇쒈쒉쒊쒋쒌쒍쒎쒏쒐쒑쒒쒓쒔쒕쒖쒗쒘쒙쒚쒛쒜쒝쒞쒟쒠쒡쒢쒣쒤쒥쒦쒧쒨쒩쒪쒫쒬쒭쒮쒯쒰쒱쒲쒳쒴쒵쒶쒷쒸쒹쒺쒻쒼쒽쒾쒿쓀쓁쓂쓃쓄쓅쓆쓇쓈쓉쓊쓋쓌쓍쓎쓏쓐쓑쓒쓓쓔쓕쓖쓗쓘쓙쓚쓛쓜쓝쓞쓟쓠쓡쓢쓣쓤쓥쓦쓧쓨쓩쓪쓫쓬쓭쓮쓯쓰쓱쓲쓳쓴쓵쓶쓷쓸쓹쓺쓻쓼쓽쓾쓿얀얁얂얃얄얅얆얇얈얉얊얋얌얍얎얏얐양얒얓얔얕얖얗얘얙얚얛얜얝얞얟얠얡얢얣얤얥얦얧얨얩얪얫" \o
    "얬얭얮얯얰얱얲얳어억얶얷언얹얺얻얼얽얾얿엀엁엂엃엄업없엇었엉엊엋엌엍엎엏에엑엒엓엔엕엖엗엘엙엚엛엜엝엞엟엠엡엢엣엤엥엦엧엨엩엪엫여역엮엯연엱엲엳열엵엶엷엸엹엺엻염엽엾엿욀욁욂욃욄욅욆욇욈욉욊욋욌욍욎욏욐욑욒욓요욕욖욗욘욙욚욛욜욝욞욟욠욡욢욣욤욥욦욧욨용욪욫욬욭욮욯우욱욲욳운욵욶욷울욹욺욻욼욽욾욿움웁웂웃웄웅웆웇웈웉웊웋워웍웎웏원웑웒웓월웕웖웗웘웙웚웛웜웝웞웟웠웡웢웣웤웥웦웧웨웩웪웫웬웭웮웯웰웱웲웳웴웵웶웷웸웹웺웻웼웽웾웿잀잁잂잃임입잆잇있잉잊잋잌잍잎잏자작잒잓잔잕잖잗잘잙잚잛잜잝잞잟잠잡잢잣잤장잦잧잨잩잪잫재잭잮잯잰잱잲잳잴잵잶잷잸잹잺잻잼잽잾잿쟀쟁쟂쟃쟄쟅쟆쟇쟈쟉쟊쟋쟌쟍쟎쟏쟐쟑쟒쟓쟔쟕쟖쟗쟘쟙쟚쟛쟜쟝쟞쟟쟠쟡쟢쟣쟤쟥쟦쟧쟨쟩쟪쟫쟬쟭쟮쟯쟰쟱쟲쟳쟴쟵쟶쟷쟸쟹쟺쟻쟼쟽쟾쟿좀좁좂좃좄종좆좇좈좉좊좋좌좍좎좏좐좑좒좓좔좕좖좗좘좙좚좛좜좝좞좟좠좡좢좣좤좥좦좧좨좩좪좫좬좭좮좯좰좱좲좳좴좵좶좷좸좹좺좻좼좽좾좿죀죁죂죃죄죅죆죇죈죉죊죋죌죍죎죏죐죑죒죓죔죕죖죗죘죙죚죛죜죝죞죟죠죡죢죣죤죥죦죧죨죩죪죫죬죭죮죯죰죱죲죳죴죵죶죷죸죹죺죻주죽죾죿즀즁즂즃즄즅즆즇즈즉즊즋즌즍즎즏즐즑즒즓즔즕즖즗즘즙즚즛즜증즞즟즠즡즢즣즤즥즦즧즨즩즪즫즬즭즮즯즰즱즲즳즴즵즶즷즸즹즺즻즼즽즾즿지직짂짃진짅짆짇질짉짊짋짌짍짎짏짐집짒짓짔징짖짗짘짙짚짛짜짝짞짟짠짡짢짣짤짥짦짧짨짩짪짫짬짭짮짯짰짱짲짳짴짵짶짷째짹짺짻짼짽짾짿쪀쪁쪂쪃쪄쪅쪆쪇쪈쪉쪊쪋쪌쪍쪎쪏쪐쪑쪒쪓쪔쪕쪖쪗쪘쪙쪚쪛쪜쪝쪞쪟쪠쪡쪢쪣쪤쪥쪦쪧쪨쪩쪪쪫쪬쪭쪮쪯쪰쪱쪲쪳쪴쪵쪶쪷쪸쪹쪺쪻쪼쪽쪾쪿쫀쫁쫂쫃쫄쫅쫆쫇쫈쫉쫊쫋쫌쫍쫎쫏쫐쫑쫒쫓쫔쫕쫖쫗쫘쫙쫚쫛쫜쫝쫞쫟쫠쫡쫢쫣쫤쫥쫦쫧쫨쫩쫪쫫쫬쫭쫮쫯쫰쫱쫲쫳쫴쫵쫶쫷쫸쫹쫺쫻쫼쫽쫾쫿쮀쮁쮂쮃쮄쮅쮆쮇쮈쮉쮊쮋쮌쮍쮎쮏쮐쮑쮒쮓쮔쮕쮖쮗쮘쮙쮚쮛쮜쮝쮞쮟쮠쮡쮢쮣쮤쮥쮦쮧쮨쮩쮪쮫쮬쮭쮮쮯쮰쮱쮲쮳쮴쮵쮶쮷쮸쮹쮺쮻쮼쮽쮾쮿쯀쯁쯂쯃쯄쯅쯆쯇쯈쯉쯊쯋쯌쯍쯎쯏쯐쯑쯒쯓쯔쯕쯖쯗쯘쯙쯚쯛쯜쯝쯞쯟쯠쯡쯢쯣쯤쯥쯦쯧쯨쯩쯪쯫쯬쯭쯮쯯쯰쯱쯲쯳쯴쯵쯶쯷쯸쯹쯺쯻쯼쯽쯾쯿첀첁첂첃첄첅첆첇첈첉첊첋첌첍첎첏첐첑첒첓첔첕첖첗처척첚첛천첝첞첟철첡첢첣첤첥첦첧첨첩첪첫첬청첮첯첰첱첲첳체첵첶첷첸첹첺첻첼첽첾첿쳀쳁쳂쳃쳄쳅쳆쳇쳈쳉쳊쳋쳌쳍쳎쳏쳐쳑쳒쳓쳔쳕쳖쳗쳘쳙쳚쳛쳜쳝쳞쳟쳠쳡쳢쳣쳤쳥쳦쳧쳨쳩쳪쳫쳬쳭쳮쳯쳰쳱쳲쳳쳴쳵쳶쳷쳸쳹쳺쳻쳼쳽쳾쳿춀춁춂춃춄춅춆춇춈춉춊춋춌춍춎춏춐춑춒춓추축춖춗춘춙춚춛출춝춞춟춠춡춢춣춤춥춦춧춨충춪춫" \o
    "춬춭춮춯춰춱춲춳춴춵춶춷춸춹춺춻춼춽춾춿췀췁췂췃췄췅췆췇췈췉췊췋췌췍췎췏췐췑췒췓췔췕췖췗췘췙췚췛췜췝췞췟췠췡췢췣췤췥췦췧취췩췪췫췬췭췮췯췰췱췲췳췴췵췶췷췸췹췺췻췼췽췾췿캀캁캂캃캄캅캆캇캈캉캊캋캌캍캎캏캐캑캒캓캔캕캖캗캘캙캚캛캜캝캞캟캠캡캢캣캤캥캦캧캨캩캪캫캬캭캮캯캰캱캲캳캴캵캶캷캸캹캺캻캼캽캾캿컀컁컂컃컄컅컆컇컈컉컊컋컌컍컎컏컐컑컒컓컔컕컖컗컘컙컚컛컜컝컞컟컠컡컢컣커컥컦컧컨컩컪컫컬컭컮컯컰컱컲컳컴컵컶컷컸컹컺컻컼컽컾컿쾀쾁쾂쾃쾄쾅쾆쾇쾈쾉쾊쾋쾌쾍쾎쾏쾐쾑쾒쾓쾔쾕쾖쾗쾘쾙쾚쾛쾜쾝쾞쾟쾠쾡쾢쾣쾤쾥쾦쾧쾨쾩쾪쾫쾬쾭쾮쾯쾰쾱쾲쾳쾴쾵쾶쾷쾸쾹쾺쾻쾼쾽쾾쾿쿀쿁쿂쿃쿄쿅쿆쿇쿈쿉쿊쿋쿌쿍쿎쿏쿐쿑쿒쿓쿔쿕쿖쿗쿘쿙쿚쿛쿜쿝쿞쿟쿠쿡쿢쿣쿤쿥쿦쿧쿨쿩쿪쿫쿬쿭쿮쿯쿰쿱쿲쿳쿴쿵쿶쿷쿸쿹쿺쿻쿼쿽쿾쿿킀킁킂킃킄킅킆킇킈킉킊킋킌킍킎킏킐킑킒킓킔킕킖킗킘킙킚킛킜킝킞킟킠킡킢킣키킥킦킧킨킩킪킫킬킭킮킯킰킱킲킳킴킵킶킷킸킹킺킻킼킽킾킿타탁탂탃탄탅탆탇탈탉탊탋탌탍탎탏탐탑탒탓탔탕탖탗탘탙탚탛태택탞탟탠탡탢탣탤탥탦탧탨탩탪탫탬탭탮탯탰탱탲탳탴탵탶탷탸탹탺탻탼탽탾탿톀톁톂톃톄톅톆톇톈톉톊톋톌톍톎톏톐톑톒톓톔톕톖톗톘톙톚톛톜톝톞톟토톡톢톣톤톥톦톧톨톩톪톫톬톭톮톯톰톱톲톳톴통톶톷톸톹톺톻톼톽톾톿퇀퇁퇂퇃퇄퇅퇆퇇퇈퇉퇊퇋퇌퇍퇎퇏퇐퇑퇒퇓퇔퇕퇖퇗퇘퇙퇚퇛퇜퇝퇞퇟퇠퇡퇢퇣퇤퇥퇦퇧퇨퇩퇪퇫퇬퇭퇮퇯퇰퇱퇲퇳퇴퇵퇶퇷퇸퇹퇺퇻퇼퇽퇾퇿튀튁튂튃튄튅튆튇튈튉튊튋튌튍튎튏튐튑튒튓튔튕튖튗튘튙튚튛튜튝튞튟튠튡튢튣튤튥튦튧튨튩튪튫튬튭튮튯튰튱튲튳튴튵튶튷트특튺튻튼튽튾튿틀틁틂틃틄틅틆틇틈틉틊틋틌틍틎틏틐틑틒틓틔틕틖틗틘틙틚틛틜틝틞틟틠틡틢틣틤틥틦틧틨틩틪틫틬틭틮틯티틱틲틳틴틵틶틷틸틹틺틻틼틽틾틿펀펁펂펃펄펅펆펇펈펉펊펋펌펍펎펏펐펑펒펓펔펕펖펗페펙펚펛펜펝펞펟펠펡펢펣펤펥펦펧펨펩펪펫펬펭펮펯펰펱펲펳펴펵펶펷편펹펺펻펼펽펾펿폀폁폂폃폄폅폆폇폈평폊폋폌폍폎폏폐폑폒폓폔폕폖폗폘폙폚폛폜폝폞폟폠폡폢폣폤폥폦폧폨폩폪폫포폭폮폯폰폱폲폳폴폵폶폷폸폹폺폻폼폽폾폿풀풁풂풃풄풅풆풇품풉풊풋풌풍풎풏풐풑풒풓풔풕풖풗풘풙풚풛풜풝풞풟풠풡풢풣풤풥풦풧풨풩풪풫풬풭풮풯풰풱풲풳풴풵풶풷풸풹풺풻풼풽풾풿퓀퓁퓂퓃퓄퓅퓆퓇퓈퓉퓊퓋퓌퓍퓎퓏퓐퓑퓒퓓퓔퓕퓖퓗퓘퓙퓚퓛퓜퓝퓞퓟퓠퓡퓢퓣퓤퓥퓦퓧퓨퓩퓪퓫퓬퓭퓮퓯퓰퓱퓲퓳퓴퓵퓶퓷퓸퓹퓺퓻퓼퓽퓾퓿햀햁햂햃햄햅햆햇했행햊햋햌햍햎햏햐햑햒햓햔햕햖햗햘햙햚햛햜햝햞햟햠햡햢햣햤향햦햧햨햩햪햫" \o
    "햬햭햮햯햰햱햲햳햴햵햶햷햸햹햺햻햼햽햾햿헀헁헂헃헄헅헆헇허헉헊헋헌헍헎헏헐헑헒헓헔헕헖헗험헙헚헛헜헝헞헟헠헡헢헣헤헥헦헧헨헩헪헫헬헭헮헯헰헱헲헳헴헵헶헷헸헹헺헻헼헽헾헿횀횁횂횃횄횅횆횇횈횉횊횋회획횎횏횐횑횒횓횔횕횖횗횘횙횚횛횜횝횞횟횠횡횢횣횤횥횦횧효횩횪횫횬횭횮횯횰횱횲횳횴횵횶횷횸횹횺횻횼횽횾횿훀훁훂훃후훅훆훇훈훉훊훋훌훍훎훏훐훑훒훓훔훕훖훗훘훙훚훛훜훝훞훟훠훡훢훣훤훥훦훧훨훩훪훫훬훭훮훯훰훱훲훳훴훵훶훷훸훹훺훻훼훽훾훿힀힁힂힃힄힅힆힇히힉힊힋힌힍힎힏힐힑힒힓힔힕힖힗힘힙힚힛힜힝힞힟힠힡힢힣ힰힱힲힳힴힵힶힷힸힹힺힻힼힽힾힿퟀퟁퟂퟃퟄퟅퟆퟋퟌퟍퟎퟏퟐퟑퟒퟓퟔퟕퟖퟗퟘퟙퟚퟛퟜퟝퟞퟟퟠퟡퟢퟣퟤퟥퟦퟧퟨퟩퟪퟫퟬퟭퟮퟯퟰퟱퟲퟳퟴퟵퟶퟷퟸퟹퟺퟻ呂女廬旅濾礪閭驪麗黎力曆歷轢年憐戀撚漣煉璉秊練聯輦蓮連鍊列劣咽烈裂說廉念捻殮簾獵令囹寧嶺怜玲瑩羚聆鈴零靈領例禮醴隸惡了僚寮尿料樂燎療蓼遼龍暈阮劉杻柳流溜琉留硫紐類六戮陸倫崙淪輪律慄栗率隆利吏履易李梨泥理痢罹裏裡里離匿溺吝燐璘藺隣鱗麟林淋臨立笠粒狀炙識什茶刺婢嬨廒廙彩徭惘慎愈憎慠懲戴揄搜摒敖晴朗望杖歹殺流滛滋漢瀞煮瞧爵犯猪瑱甆画瘝瘟益盛直睊着磌窱節类絛練缾者荒華蝹襁覆視調諸請謁諾諭謹變贈輸遲醙鉶陼難靖韛響頋頻鬒龜𢡊𢡄𣏕㮝䀘䀹𥉉𥳐𧻓齃龎ﮀﮁﮂﮃﮄﮅﮆﮇﮈﮉﮊﮋﮌﮍﮎﮏﮐﮑﮒﮓﮔﮕﮖﮗﮘﮙﮚﮛﮜﮝﮞﮟﮠﮡﮢﮣﮤﮥﮦﮧﮨﮩﮪﮫﮬﮭﮮﮯﮰﮱﯓﯔﯕﯖﯗﯘﯙﯚﯛﯜﯝﯞﯟﯠﯡﯢﯣﯤﯥﯦﯧﯨﯩﯪﯫﯬﯭﯮﯯﯰﯱﯲﯳﯴﯵﯶﯷﯸﯹﯺﯻﯼﯽﯾﯿﲀﲁﲂﲃﲄﲅﲆﲇﲈﲉﲊﲋﲌﲍﲎﲏﲐﲑﲒﲓﲔﲕﲖﲗﲘﲙﲚﲛﲜﲝﲞﲟﲠﲡﲢﲣﲤﲥﲦﲧﲨﲩﲪﲫﲬﲭﲮﲯﲰﲱﲲﲳﲴﲵﲶﲷﲸﲹﲺﲻﲼﲽﲾﲿﳀﳁﳂﳃﳄﳅﳆﳇﳈﳉﳊﳋﳌﳍﳎﳏﳐﳑﳒﳓﳔﳕﳖﳗﳘﳙﳚﳛﳜﳝﳞﳟﳠﳡﳢﳣﳤﳥﳦﳧﳨﳩﳪﳫﳬﳭﳮﳯﳰﳱﳲﳳﳴﳵﳶﳷﳸﳹﳺﳻﳼﳽﳾﳿﶀﶁﶂﶃﶄﶅﶆﶇﶈﶉﶊﶋﶌﶍﶎﶏﶒﶓﶔﶕﶖﶗﶘﶙﶚﶛﶜﶝﶞﶟﶠﶡﶢﶣﶤﶥﶦﶧﶨﶩﶪﶫﶬﶭﶮﶯﶰﶱﶲﶳﶴﶵﶶﶷﶸﶹﶺﶻﶼﶽﶾﶿﷀﷁﷂﷃﷄﷅﷆﷇﷰﷱﷲﷳﷴﷵﷶﷷﷸﷹﷺﷻﺀﺁﺂﺃﺄﺅﺆﺇﺈﺉﺊﺋﺌﺍﺎﺏﺐﺑﺒﺓﺔﺕﺖﺗﺘﺙﺚﺛﺜﺝﺞﺟﺠﺡﺢﺣﺤﺥﺦﺧﺨﺩﺪﺫﺬﺭﺮﺯﺰﺱﺲﺳﺴﺵﺶﺷﺸﺹﺺﺻﺼﺽﺾﺿﻀﻁﻂﻃﻄﻅﻆﻇﻈﻉﻊﻋﻌﻍﻎﻏﻐﻑﻒﻓﻔﻕﻖﻗﻘﻙﻚﻛﻜﻝﻞﻟﻠﻡﻢﻣﻤﻥﻦﻧﻨﻩﻪﻫﻬﻭﻮﻯﻰﻱﻲﻳﻴﻵﻶﻷﻸﻹﻺﻻﻼﾀﾁﾂﾃﾄﾅﾆﾇﾈﾉﾊﾋﾌﾍﾎﾏﾐﾑﾒﾓﾔﾕﾖﾗﾘﾙﾚﾛﾜﾝﾞﾟﾠﾡﾢﾣﾤﾥﾦﾧﾨﾩﾪﾫﾬﾭﾮﾯﾰﾱﾲﾳﾴﾵﾶﾷ" \o
    "ﾸﾹﾺﾻﾼﾽﾾￂￃￄￅￆￇￊￋￌￍￎￏￒￓￔￕￖￗￚￛￜ"

\* The alphanumeric characters beyond the Basic Multilingual Plane, two units
\* each: the ideographs U+30000..U+3134A that can be held.  (No character
\* beyond the plane that can be held is a decimal digit, white space or a
\* cased letter.)
AstralWordAlphabet ==
    "𰂀𰂁𰂂𰂃𰂄𰂅𰂆𰂇𰂈𰂉𰂊𰂋𰂌𰂍𰂎𰂏𰂐𰂑𰂒𰂓𰂔𰂕𰂖𰂗𰂘𰂙𰂚𰂛𰂜𰂝𰂞𰂟𰂠𰂡𰂢𰂣𰂤𰂥𰂦𰂧𰂨𰂩𰂪𰂫𰂬𰂭𰂮𰂯𰂰𰂱𰂲𰂳𰂴𰂵𰂶𰂷𰂸𰂹𰂺𰂻𰂼𰂽𰂾𰂿𰃀𰃁𰃂𰃃𰃄𰃅𰃆𰃇𰃈𰃉𰃊𰃋𰃌𰃍𰃎𰃏𰃐𰃑𰃒𰃓𰃔𰃕𰃖𰃗𰃘𰃙𰃚𰃛𰃜𰃝𰃞𰃟𰃠𰃡𰃢𰃣𰃤𰃥𰃦𰃧𰃨𰃩𰃪𰃫𰃬𰃭𰃮𰃯𰃰𰃱𰃲𰃳𰃴𰃵𰃶𰃷𰃸𰃹𰃺𰃻𰃼𰃽𰃾𰃿𰆀𰆁𰆂𰆃𰆄𰆅𰆆𰆇𰆈𰆉𰆊𰆋𰆌𰆍𰆎𰆏𰆐𰆑𰆒𰆓𰆔𰆕𰆖𰆗𰆘𰆙𰆚𰆛𰆜𰆝𰆞𰆟𰆠𰆡𰆢𰆣𰆤𰆥𰆦𰆧𰆨𰆩𰆪𰆫𰆬𰆭𰆮𰆯𰆰𰆱𰆲𰆳𰆴𰆵𰆶𰆷𰆸𰆹𰆺𰆻𰆼𰆽𰆾𰆿𰇀𰇁𰇂𰇃𰇄𰇅𰇆𰇇𰇈𰇉𰇊𰇋𰇌𰇍𰇎𰇏𰇐𰇑𰇒𰇓𰇔𰇕𰇖𰇗𰇘𰇙𰇚𰇛𰇜𰇝𰇞𰇟𰇠𰇡𰇢𰇣𰇤𰇥𰇦𰇧𰇨𰇩𰇪𰇫𰇬𰇭𰇮𰇯𰇰𰇱𰇲𰇳𰇴𰇵𰇶𰇷𰇸𰇹𰇺𰇻𰇼𰇽𰇾𰇿𰊀𰊁𰊂𰊃𰊄𰊅𰊆𰊇𰊈𰊉𰊊𰊋𰊌𰊍𰊎𰊏𰊐𰊑𰊒𰊓𰊔𰊕𰊖𰊗𰊘𰊙𰊚𰊛𰊜𰊝𰊞𰊟𰊠𰊡𰊢𰊣𰊤𰊥𰊦𰊧𰊨𰊩𰊪𰊫𰊬𰊭𰊮𰊯𰊰𰊱𰊲𰊳𰊴𰊵𰊶𰊷𰊸𰊹𰊺𰊻𰊼𰊽𰊾𰊿𰋀𰋁𰋂𰋃𰋄𰋅𰋆𰋇𰋈𰋉𰋊𰋋𰋌𰋍𰋎𰋏𰋐𰋑𰋒𰋓𰋔𰋕𰋖𰋗𰋘𰋙𰋚𰋛𰋜𰋝𰋞𰋟𰋠𰋡𰋢𰋣𰋤𰋥𰋦𰋧𰋨𰋩𰋪𰋫𰋬𰋭𰋮𰋯𰋰𰋱𰋲𰋳𰋴𰋵𰋶𰋷𰋸𰋹𰋺𰋻𰋼𰋽𰋾𰋿𰎀𰎁𰎂𰎃𰎄𰎅𰎆𰎇𰎈𰎉𰎊𰎋𰎌𰎍𰎎𰎏𰎐𰎑𰎒𰎓𰎔𰎕𰎖𰎗𰎘𰎙𰎚𰎛𰎜𰎝𰎞𰎟𰎠𰎡𰎢𰎣𰎤𰎥𰎦𰎧𰎨𰎩𰎪𰎫𰎬𰎭𰎮𰎯𰎰𰎱𰎲𰎳𰎴𰎵𰎶𰎷𰎸𰎹𰎺𰎻𰎼𰎽𰎾𰎿𰏀𰏁𰏂𰏃𰏄𰏅𰏆𰏇𰏈𰏉𰏊𰏋𰏌𰏍𰏎𰏏𰏐𰏑𰏒𰏓𰏔𰏕𰏖𰏗𰏘𰏙𰏚𰏛𰏜𰏝𰏞𰏟𰏠𰏡𰏢𰏣𰏤𰏥𰏦𰏧𰏨𰏩𰏪𰏫𰏬𰏭𰏮𰏯𰏰𰏱𰏲𰏳𰏴𰏵𰏶𰏷𰏸𰏹𰏺𰏻𰏼𰏽𰏾𰏿" \o
    "𰒀𰒁𰒂𰒃𰒄𰒅𰒆𰒇𰒈𰒉𰒊𰒋𰒌𰒍𰒎𰒏𰒐𰒑𰒒𰒓𰒔𰒕𰒖𰒗𰒘𰒙𰒚𰒛𰒜𰒝𰒞𰒟𰒠𰒡𰒢𰒣𰒤𰒥𰒦𰒧𰒨𰒩𰒪𰒫𰒬𰒭𰒮𰒯𰒰𰒱𰒲𰒳𰒴𰒵𰒶𰒷𰒸𰒹𰒺𰒻𰒼𰒽𰒾𰒿𰓀𰓁𰓂𰓃𰓄𰓅𰓆𰓇𰓈𰓉𰓊𰓋𰓌𰓍𰓎𰓏𰓐𰓑𰓒𰓓𰓔𰓕𰓖𰓗𰓘𰓙𰓚𰓛𰓜𰓝𰓞𰓟𰓠𰓡𰓢𰓣𰓤𰓥𰓦𰓧𰓨𰓩𰓪𰓫𰓬𰓭𰓮𰓯𰓰𰓱𰓲𰓳𰓴𰓵𰓶𰓷𰓸𰓹𰓺𰓻𰓼𰓽𰓾𰓿𰖀𰖁𰖂𰖃𰖄𰖅𰖆𰖇𰖈𰖉𰖊𰖋𰖌𰖍𰖎𰖏𰖐𰖑𰖒𰖓𰖔𰖕𰖖𰖗𰖘𰖙𰖚𰖛𰖜𰖝𰖞𰖟𰖠𰖡𰖢𰖣𰖤𰖥𰖦𰖧𰖨𰖩𰖪𰖫𰖬𰖭𰖮𰖯𰖰𰖱𰖲𰖳𰖴𰖵𰖶𰖷𰖸𰖹𰖺𰖻𰖼𰖽𰖾𰖿𰗀𰗁𰗂𰗃𰗄𰗅𰗆𰗇𰗈𰗉𰗊𰗋𰗌𰗍𰗎𰗏𰗐𰗑𰗒𰗓𰗔𰗕𰗖𰗗𰗘𰗙𰗚𰗛𰗜𰗝𰗞𰗟𰗠𰗡𰗢𰗣𰗤𰗥𰗦𰗧𰗨𰗩𰗪𰗫𰗬𰗭𰗮𰗯𰗰𰗱𰗲𰗳𰗴𰗵𰗶𰗷𰗸𰗹𰗺𰗻𰗼𰗽𰗾𰗿𰚀𰚁𰚂𰚃𰚄𰚅𰚆𰚇𰚈𰚉𰚊𰚋𰚌𰚍𰚎𰚏𰚐𰚑𰚒𰚓𰚔𰚕𰚖𰚗𰚘𰚙𰚚𰚛𰚜𰚝𰚞𰚟𰚠𰚡𰚢𰚣𰚤𰚥𰚦𰚧𰚨𰚩𰚪𰚫𰚬𰚭𰚮𰚯𰚰𰚱𰚲𰚳𰚴𰚵𰚶𰚷𰚸𰚹𰚺𰚻𰚼𰚽𰚾𰚿𰛀𰛁𰛂𰛃𰛄𰛅𰛆𰛇𰛈𰛉𰛊𰛋𰛌𰛍𰛎𰛏𰛐𰛑𰛒𰛓𰛔𰛕𰛖𰛗𰛘𰛙𰛚𰛛𰛜𰛝𰛞𰛟𰛠𰛡𰛢𰛣𰛤𰛥𰛦𰛧𰛨𰛩𰛪𰛫𰛬𰛭𰛮𰛯𰛰𰛱𰛲𰛳𰛴𰛵𰛶𰛷𰛸𰛹𰛺𰛻𰛼𰛽𰛾𰛿𰞀𰞁𰞂𰞃𰞄𰞅𰞆𰞇𰞈𰞉𰞊𰞋𰞌𰞍𰞎𰞏𰞐𰞑𰞒𰞓𰞔𰞕𰞖𰞗𰞘𰞙𰞚𰞛𰞜𰞝𰞞𰞟𰞠𰞡𰞢𰞣𰞤𰞥𰞦𰞧𰞨𰞩𰞪𰞫𰞬𰞭𰞮𰞯𰞰𰞱𰞲𰞳𰞴𰞵𰞶𰞷𰞸𰞹𰞺𰞻𰞼𰞽𰞾𰞿𰟀𰟁𰟂𰟃𰟄𰟅𰟆𰟇𰟈𰟉𰟊𰟋𰟌𰟍𰟎𰟏𰟐𰟑𰟒𰟓𰟔𰟕𰟖𰟗𰟘𰟙𰟚𰟛𰟜𰟝𰟞𰟟𰟠𰟡𰟢𰟣𰟤𰟥𰟦𰟧𰟨𰟩𰟪𰟫𰟬𰟭𰟮𰟯𰟰𰟱𰟲𰟳𰟴𰟵𰟶𰟷𰟸𰟹𰟺𰟻𰟼𰟽𰟾𰟿" \o
    "𰢀𰢁𰢂𰢃𰢄𰢅𰢆𰢇𰢈𰢉𰢊𰢋𰢌𰢍𰢎𰢏𰢐𰢑𰢒𰢓𰢔𰢕𰢖𰢗𰢘𰢙𰢚𰢛𰢜𰢝𰢞𰢟𰢠𰢡𰢢𰢣𰢤𰢥𰢦𰢧𰢨𰢩𰢪𰢫𰢬𰢭𰢮𰢯𰢰𰢱𰢲𰢳𰢴𰢵𰢶𰢷𰢸𰢹𰢺𰢻𰢼𰢽𰢾𰢿𰣀𰣁𰣂𰣃𰣄𰣅𰣆𰣇𰣈𰣉𰣊𰣋𰣌𰣍𰣎𰣏𰣐𰣑𰣒𰣓𰣔𰣕𰣖𰣗𰣘𰣙𰣚𰣛𰣜𰣝𰣞𰣟𰣠𰣡𰣢𰣣𰣤𰣥𰣦𰣧𰣨𰣩𰣪𰣫𰣬𰣭𰣮𰣯𰣰𰣱𰣲𰣳𰣴𰣵𰣶𰣷𰣸𰣹𰣺𰣻𰣼𰣽𰣾𰣿𰦀𰦁𰦂𰦃𰦄𰦅𰦆𰦇𰦈𰦉𰦊𰦋𰦌𰦍𰦎𰦏𰦐𰦑𰦒𰦓𰦔𰦕𰦖𰦗𰦘𰦙𰦚𰦛𰦜𰦝𰦞𰦟𰦠𰦡𰦢𰦣𰦤𰦥𰦦𰦧𰦨𰦩𰦪𰦫𰦬𰦭𰦮𰦯𰦰𰦱𰦲𰦳𰦴𰦵𰦶𰦷𰦸𰦹𰦺𰦻𰦼𰦽𰦾𰦿𰧀𰧁𰧂𰧃𰧄𰧅𰧆𰧇𰧈𰧉𰧊𰧋𰧌𰧍𰧎𰧏𰧐𰧑𰧒𰧓𰧔𰧕𰧖𰧗𰧘𰧙𰧚𰧛𰧜𰧝𰧞𰧟𰧠𰧡𰧢𰧣𰧤𰧥𰧦𰧧𰧨𰧩𰧪𰧫𰧬𰧭𰧮𰧯𰧰𰧱𰧲𰧳𰧴𰧵𰧶𰧷𰧸𰧹𰧺𰧻𰧼𰧽𰧾𰧿𰪀𰪁𰪂𰪃𰪄𰪅𰪆𰪇𰪈𰪉𰪊𰪋𰪌𰪍𰪎𰪏𰪐𰪑𰪒𰪓𰪔𰪕𰪖𰪗𰪘𰪙𰪚𰪛𰪜𰪝𰪞𰪟𰪠𰪡𰪢𰪣𰪤𰪥𰪦𰪧𰪨𰪩𰪪𰪫𰪬𰪭𰪮𰪯𰪰𰪱𰪲𰪳𰪴𰪵𰪶𰪷𰪸𰪹𰪺𰪻𰪼𰪽𰪾𰪿𰫀𰫁𰫂𰫃𰫄𰫅𰫆𰫇𰫈𰫉𰫊𰫋𰫌𰫍𰫎𰫏𰫐𰫑𰫒𰫓𰫔𰫕𰫖𰫗𰫘𰫙𰫚𰫛𰫜𰫝𰫞𰫟𰫠𰫡𰫢𰫣𰫤𰫥𰫦𰫧𰫨𰫩𰫪𰫫𰫬𰫭𰫮𰫯𰫰𰫱𰫲𰫳𰫴𰫵𰫶𰫷𰫸𰫹𰫺𰫻𰫼𰫽𰫾𰫿𰮀𰮁𰮂𰮃𰮄𰮅𰮆𰮇𰮈𰮉𰮊𰮋𰮌𰮍𰮎𰮏𰮐𰮑𰮒𰮓𰮔𰮕𰮖𰮗𰮘𰮙𰮚𰮛𰮜𰮝𰮞𰮟𰮠𰮡𰮢𰮣𰮤𰮥𰮦𰮧𰮨𰮩𰮪𰮫𰮬𰮭𰮮𰮯𰮰𰮱𰮲𰮳𰮴𰮵𰮶𰮷𰮸𰮹𰮺𰮻𰮼𰮽𰮾𰮿𰯀𰯁𰯂𰯃𰯄𰯅𰯆𰯇𰯈𰯉𰯊𰯋𰯌𰯍𰯎𰯏𰯐𰯑𰯒𰯓𰯔𰯕𰯖𰯗𰯘𰯙𰯚𰯛𰯜𰯝𰯞𰯟𰯠𰯡𰯢𰯣𰯤𰯥𰯦𰯧𰯨𰯩𰯪𰯫𰯬𰯭𰯮𰯯𰯰𰯱𰯲𰯳𰯴𰯵𰯶𰯷𰯸𰯹𰯺𰯻𰯼𰯽𰯾𰯿" \o
    "𰲀𰲁𰲂𰲃𰲄𰲅𰲆𰲇𰲈𰲉𰲊𰲋𰲌𰲍𰲎𰲏𰲐𰲑𰲒𰲓𰲔𰲕𰲖𰲗𰲘𰲙𰲚𰲛𰲜𰲝𰲞𰲟𰲠𰲡𰲢𰲣𰲤𰲥𰲦𰲧𰲨𰲩𰲪𰲫𰲬𰲭𰲮𰲯𰲰𰲱𰲲𰲳𰲴𰲵𰲶𰲷𰲸𰲹𰲺𰲻𰲼𰲽𰲾𰲿𰳀𰳁𰳂𰳃𰳄𰳅𰳆𰳇𰳈𰳉𰳊𰳋𰳌𰳍𰳎𰳏𰳐𰳑𰳒𰳓𰳔𰳕𰳖𰳗𰳘𰳙𰳚𰳛𰳜𰳝𰳞𰳟𰳠𰳡𰳢𰳣𰳤𰳥𰳦𰳧𰳨𰳩𰳪𰳫𰳬𰳭𰳮𰳯𰳰𰳱𰳲𰳳𰳴𰳵𰳶𰳷𰳸𰳹𰳺𰳻𰳼𰳽𰳾𰳿𰶀𰶁𰶂𰶃𰶄𰶅𰶆𰶇𰶈𰶉𰶊𰶋𰶌𰶍𰶎𰶏𰶐𰶑𰶒𰶓𰶔𰶕𰶖𰶗𰶘𰶙𰶚𰶛𰶜𰶝𰶞𰶟𰶠𰶡𰶢𰶣𰶤𰶥𰶦𰶧𰶨𰶩𰶪𰶫𰶬𰶭𰶮𰶯𰶰𰶱𰶲𰶳𰶴𰶵𰶶𰶷𰶸𰶹𰶺𰶻𰶼𰶽𰶾𰶿𰷀𰷁𰷂𰷃𰷄𰷅𰷆𰷇𰷈𰷉𰷊𰷋𰷌𰷍𰷎𰷏𰷐𰷑𰷒𰷓𰷔𰷕𰷖𰷗𰷘𰷙𰷚𰷛𰷜𰷝𰷞𰷟𰷠𰷡𰷢𰷣𰷤𰷥𰷦𰷧𰷨𰷩𰷪𰷫𰷬𰷭𰷮𰷯𰷰𰷱𰷲𰷳𰷴𰷵𰷶𰷷𰷸𰷹𰷺𰷻𰷼𰷽𰷾𰷿𰺀𰺁𰺂𰺃𰺄𰺅𰺆𰺇𰺈𰺉𰺊𰺋𰺌𰺍𰺎𰺏𰺐𰺑𰺒𰺓𰺔𰺕𰺖𰺗𰺘𰺙𰺚𰺛𰺜𰺝𰺞𰺟𰺠𰺡𰺢𰺣𰺤𰺥𰺦𰺧𰺨𰺩𰺪𰺫𰺬𰺭𰺮𰺯𰺰𰺱𰺲𰺳𰺴𰺵𰺶𰺷𰺸𰺹𰺺𰺻𰺼𰺽𰺾𰺿𰻀𰻁𰻂𰻃𰻄𰻅𰻆𰻇𰻈𰻉𰻊𰻋𰻌𰻍𰻎𰻏𰻐𰻑𰻒𰻓𰻔𰻕𰻖𰻗𰻘𰻙𰻚𰻛𰻜𰻝𰻞𰻟𰻠𰻡𰻢𰻣𰻤𰻥𰻦𰻧𰻨𰻩𰻪𰻫𰻬𰻭𰻮𰻯𰻰𰻱𰻲𰻳𰻴𰻵𰻶𰻷𰻸𰻹𰻺𰻻𰻼𰻽𰻾𰻿𰾀𰾁𰾂𰾃𰾄𰾅𰾆𰾇𰾈𰾉𰾊𰾋𰾌𰾍𰾎𰾏𰾐𰾑𰾒𰾓𰾔𰾕𰾖𰾗𰾘𰾙𰾚𰾛𰾜𰾝𰾞𰾟𰾠𰾡𰾢𰾣𰾤𰾥𰾦𰾧𰾨𰾩𰾪𰾫𰾬𰾭𰾮𰾯𰾰𰾱𰾲𰾳𰾴𰾵𰾶𰾷𰾸𰾹𰾺𰾻𰾼𰾽𰾾𰾿𰿀𰿁𰿂𰿃𰿄𰿅𰿆𰿇𰿈𰿉𰿊𰿋𰿌𰿍𰿎𰿏𰿐𰿑𰿒𰿓𰿔𰿕𰿖𰿗𰿘𰿙𰿚𰿛𰿜𰿝𰿞𰿟𰿠𰿡𰿢𰿣𰿤𰿥𰿦𰿧𰿨𰿩𰿪𰿫𰿬𰿭𰿮𰿯𰿰𰿱𰿲𰿳𰿴𰿵𰿶𰿷𰿸𰿹𰿺𰿻𰿼𰿽𰿾𰿿" \o
    "𱂀𱂁𱂂𱂃𱂄𱂅𱂆𱂇𱂈𱂉𱂊𱂋𱂌𱂍𱂎𱂏𱂐𱂑𱂒𱂓𱂔𱂕𱂖𱂗𱂘𱂙𱂚𱂛𱂜𱂝𱂞𱂟𱂠𱂡𱂢𱂣𱂤𱂥𱂦𱂧𱂨𱂩𱂪𱂫𱂬𱂭𱂮𱂯𱂰𱂱𱂲𱂳𱂴𱂵𱂶𱂷𱂸𱂹𱂺𱂻𱂼𱂽𱂾𱂿𱃀𱃁𱃂𱃃𱃄𱃅𱃆𱃇𱃈𱃉𱃊𱃋𱃌𱃍𱃎𱃏𱃐𱃑𱃒𱃓𱃔𱃕𱃖𱃗𱃘𱃙𱃚𱃛𱃜𱃝𱃞𱃟𱃠𱃡𱃢𱃣𱃤𱃥𱃦𱃧𱃨𱃩𱃪𱃫𱃬𱃭𱃮𱃯𱃰𱃱𱃲𱃳𱃴𱃵𱃶𱃷𱃸𱃹𱃺𱃻𱃼𱃽𱃾𱃿𱆀𱆁𱆂𱆃𱆄𱆅𱆆𱆇𱆈𱆉𱆊𱆋𱆌𱆍𱆎𱆏𱆐𱆑𱆒𱆓𱆔𱆕𱆖𱆗𱆘𱆙𱆚𱆛𱆜𱆝𱆞𱆟𱆠𱆡𱆢𱆣𱆤𱆥𱆦𱆧𱆨𱆩𱆪𱆫𱆬𱆭𱆮𱆯𱆰𱆱𱆲𱆳𱆴𱆵𱆶𱆷𱆸𱆹𱆺𱆻𱆼𱆽𱆾𱆿𱇀𱇁𱇂𱇃𱇄𱇅𱇆𱇇𱇈𱇉𱇊𱇋𱇌𱇍𱇎𱇏𱇐𱇑𱇒𱇓𱇔𱇕𱇖𱇗𱇘𱇙𱇚𱇛𱇜𱇝𱇞𱇟𱇠𱇡𱇢𱇣𱇤𱇥𱇦𱇧𱇨𱇩𱇪𱇫𱇬𱇭𱇮𱇯𱇰𱇱𱇲𱇳𱇴𱇵𱇶𱇷𱇸𱇹𱇺𱇻𱇼𱇽𱇾𱇿𱊀𱊁𱊂𱊃𱊄𱊅𱊆𱊇𱊈𱊉𱊊𱊋𱊌𱊍𱊎𱊏𱊐𱊑𱊒𱊓𱊔𱊕𱊖𱊗𱊘𱊙𱊚𱊛𱊜𱊝𱊞𱊟𱊠𱊡𱊢𱊣𱊤𱊥𱊦𱊧𱊨𱊩𱊪𱊫𱊬𱊭𱊮𱊯𱊰𱊱𱊲𱊳𱊴𱊵𱊶𱊷𱊸𱊹𱊺𱊻𱊼𱊽𱊾𱊿𱋀𱋁𱋂𱋃𱋄𱋅𱋆𱋇𱋈𱋉𱋊𱋋𱋌𱋍𱋎𱋏𱋐𱋑𱋒𱋓𱋔𱋕𱋖𱋗𱋘𱋙𱋚𱋛𱋜𱋝𱋞𱋟𱋠𱋡𱋢𱋣𱋤𱋥𱋦𱋧𱋨𱋩𱋪𱋫𱋬𱋭𱋮𱋯𱋰𱋱𱋲𱋳𱋴𱋵𱋶𱋷𱋸𱋹𱋺𱋻𱋼𱋽𱋾𱋿"

\* \w: [a-zA-Z0-9_] and every character that str.isalnum() accepts
WordChars ==
    UpperChars \cup LowerChars \cup DigitChars \cup {"_"}
        \cup {Ch(WordAlphabet, k) : k \in 1..Len(WordAlphabet)}
        \cup {SubSeq(AstralWordAlphabet, 2 * k - 1, 2 * k) :
                 k \in 1..(Len(AstralWordAlphabet) \div 2)}

\* [A-Z'\s] of the town group, [A-Z\s] of the county group
TownChars == UpperChars \cup {"'"} \cup WsChars

CountyChars == UpperChars \cup WsChars

SetMin(S) == CHOOSE x \in S : \A y \in S : x <= y

\* The last index e >= k-1 such that every character of s[k..e] is in class:
\* the extent of a greedy class* starting at k.
RunEnd(s, k, class) ==
    LET end[j \in Nat] ==
            IF j <= Len(s) /\ Ch(s, j) \in class THEN end[j + 1] ELSE j - 1
    IN  end[k]

\* The first index b <= k+1 such that every character of s[b..k] is in class
RunStart(s, k, class) ==
    LET start[j \in Nat] ==
            IF j >= 1 /\ Ch(s, j) \in class THEN start[j - 1] ELSE j + 1
    IN  start[k]

\* s[k:] starts with sub
StartsWithAt(s, sub, k) ==
    /\ k >= 1
    /\ k + Len(sub) - 1 <= Len(s)
    /\ SubSeq(s, k, k + Len(sub) - 1) = sub

\* str.startswith
StartsWith(s, sub) == StartsWithAt(s, sub, 1)

\* str.find, 1-based; 0 when sub does not occur
Find(s, sub) ==
    LET at == {k \in 1..(Len(s) - Len(sub) + 1) : StartsWithAt(s, sub, k)}
    IN  IF at = {} THEN 0 ELSE SetMin(at)

\* sub in s
Contains(s, sub) == \E k \in 1..(Len(s) - Len(sub) + 1) : StartsWithAt(s, sub, k)

\* str.strip
Strip(s) == SubSeq(s, RunEnd(s, 1, WsChars) + 1, RunStart(s, Len(s), WsChars) - 1)

\* The ASCII letter of the other case; every other character is itself
OtherCase(p) ==
    IF p \in LowerChars
    THEN Ch(UpperAlphabet, CHOOSE k \in 1..26 : Ch(LowerAlphabet, k) = p)
    ELSE IF p \in UpperChars
    THEN Ch(LowerAlphabet, CHOOSE k \in 1..26 : Ch(UpperAlphabet, k) = p)
    ELSE p

\* re.IGNORECASE: the characters that the character p of a pattern matches.
\* Every pattern of the code is ASCII; an ASCII letter matches both of its
\* cases.  (It also matches U+0130 and U+0131 for i, U+017F for s and
\* U+212A for k, which no string here can hold.)
IgnoreCase(p) == {p, OtherCase(p)}

\* The literal lit of an IGNORECASE pattern matches s at position k
LiteralAtI(s, lit, k) ==
    /\ k >= 1
    /\ k + Len(lit) - 1 <= Len(s)
    /\ \A j \in 1..Len(lit) : Ch(s, k + j - 1) \in IgnoreCase(Ch(lit, j))

\* The literal occurs in s
ContainsI(s, lit) == \E k \in 1..(Len(s) - Len(lit) + 1) : LiteralAtI(s, lit, k)

RECURSIVE Split(_)
\* text.split('\n')
Split(s) ==
    LET k == Find(s, "\n")
    IN  IF k = 0 THEN <<s>>
        ELSE <<SubSeq(s, 1, k - 1)>> \o Split(SubSeq(s, k + 1, Len(s)))

(***************************************************************************)
(* The regular expressions of parse_page_text                              *)
(***************************************************************************)
AllDigits(s, a, b) == b <= Len(s) /\ \A k \in a..b : Ch(s, k) \in DigitChars

NoMatch == [ok |-> FALSE]

\* A variant of location_pattern that takes any line holding the token ALF
\* for a header line
location_pattern_Loose(line) ==
    IF Contains(line, "ALF")
    THEN [ok |-> TRUE, g1 |-> line, g2 |-> "", g3 |-> "", g4 |-> ""]
    ELSE NoMatch

\* location_pattern.match(line):
\*   ^([A-Z][A-Z'\s]+?)\s*\(([A-Z\s]+)\)\s*-\s*(\d{5})\s+ALF\s*(.*)?$
\* The groups are the captured text as the regex engine returns it.
location_pattern(line) ==
    LET e1 == RunEnd(line, 2, TownChars)      \* '(' is the first char outside the class
        \* lazy +?: the shortest group 1 (two characters at least) after which
        \* only \s* precedes '('
        lastInk == RunStart(line, e1, WsChars) - 1
        g1end == IF lastInk < 2 THEN 2 ELSE lastInk
        q  == e1 + 1
        e2 == RunEnd(line, q + 1, CountyChars)
        a  == RunEnd(line, e2 + 2, WsChars) + 1   \* '-'
        b  == RunEnd(line, a + 1, WsChars) + 1    \* first digit of the zip code
        c  == RunEnd(line, b + 5, WsChars)        \* \s+ before ALF
        d  == RunEnd(line, c + 4, WsChars)        \* \s* after ALF
    IN  IF /\ Len(line) >= 1
           /\ Ch(line, 1) \in UpperChars
           /\ e1 >= 2
           /\ Ch(line, q) = "("
           /\ e2 >= q + 1
           /\ Ch(line, e2 + 1) = ")"
           /\ Ch(line, a) = "-"
           /\ AllDigits(line, b, b + 4)
           /\ c >= b + 5
           /\ StartsWithAt(line, "ALF", c + 1)
        THEN [ok |-> TRUE,
              g1 |-> SubSeq(line, 1, g1end),
              g2 |-> SubSeq(line, q + 1, e2),
              g3 |-> SubSeq(line, b, b + 4),
              g4 |-> SubSeq(line, d + 1, Len(line))]
        ELSE NoMatch

\* Total\s+Lic\s*-\s*(\d+) matched at position k
BedsAt(s, k) ==
    LET a == RunEnd(s, k + 5, WsChars)
        b == RunEnd(s, a + 4, WsChars)
        c == RunEnd(s, b + 2, WsChars)
        d == RunEnd(s, c + 1, DigitChars)
    IN  IF /\ StartsWithAt(s, "Total", k)
           /\ a >= k + 5
           /\ StartsWithAt(s, "Lic", a + 1)
           /\ Ch(s, b + 1) = "-"
           /\ d >= c + 1
        THEN [ok |-> TRUE, from |-> k, to |-> d, g1 |-> SubSeq(s, c + 1, d)]
        ELSE NoMatch

\* re.search(r'Total\s+Lic\s*-\s*(\d+)', s): the leftmost match
BedsSearch(s) ==
    LET at == {k \in 1..Len(s) : BedsAt(s, k).ok}
    IN  IF at = {} THEN NoMatch ELSE BedsAt(s, SetMin(at))

RECURSIVE BedsRemoved(_)
\* re.sub(r'Total\s+Lic\s*-\s*\d+', '', s)
BedsRemoved(s) ==
    LET m == BedsSearch(s)
    IN  IF ~m.ok THEN s
        ELSE SubSeq(s, 1, m.from - 1) \o BedsRemoved(SubSeq(s, m.to + 1, Len(s)))

\* re.search(r'(ALF\d{3})', s)
LicenseSearch(s) ==
    LET at == {k \in 1..Len(s) : StartsWithAt(s, "ALF", k) /\ AllDigits(s, k + 3, k + 5)}
    IN  IF at = {} THEN NoMatch
        ELSE [ok |-> TRUE, from |-> SetMin(at), g1 |-> SubSeq(s, SetMin(at), SetMin(at) + 5)]

\* \((\d{3})\)\s*(\d{3})-(\d{4}) matched at position k
PhoneAt(s, k) ==
    LET a == RunEnd(s, k + 5, WsChars)
    IN  IF /\ Ch(s, k) = "("
           /\ AllDigits(s, k + 1, k + 3)
           /\ Ch(s, k + 4) = ")"
           /\ AllDigits(s, a + 1, a + 3)
           /\ Ch(s, a + 4) = "-"
           /\ AllDigits(s, a + 5, a + 8)
        THEN [ok |-> TRUE,
              g1 |-> SubSeq(s, k + 1, k + 3),
              g2 |-> SubSeq(s, a + 1, a + 3),
              g3 |-> SubSeq(s, a + 5, a + 8)]
        ELSE NoMatch

\* re.search(r'\((\d{3})\)\s*(\d{3})-(\d{4})', s)
PhoneSearch(s) ==
    LET at == {k \in 1..Len(s) : PhoneAt(s, k).ok}
    IN  IF at = {} THEN NoMatch ELSE PhoneAt(s, SetMin(at))

\* re.search(r'FAX:\s*\((\d{3})\)\s*(\d{3})-(\d{4})', s)
FaxSearch(s) ==
    LET at == {k \in 1..Len(s) :
                 /\ StartsWithAt(s, "FAX:", k)
                 /\ PhoneAt(s, RunEnd(s, k + 4, WsChars) + 1).ok}
    IN  IF at = {} THEN NoMatch
        ELSE PhoneAt(s, RunEnd(s, SetMin(at) + 4, WsChars) + 1)

\* f"({g1}) {g2}-{g3}"
FormatPhone(m) == "(" \o m.g1 \o ") " \o m.g2 \o "-" \o m.g3

\* re.match(r'^([^,]+),\s*(ADMINISTRATOR|PROVISIONAL ADM)', s, re.IGNORECASE)
AdminMatch(s) ==
    LET c == Find(s, ",")
        a == RunEnd(s, c + 1, WsChars)
    IN  IF /\ c >= 2
           /\ \/ LiteralAtI(s, "ADMINISTRATOR", a + 1)
              \/ LiteralAtI(s, "PROVISIONAL ADM", a + 1)
        THEN [ok |-> TRUE, g1 |-> SubSeq(s, 1, c - 1)]
        ELSE NoMatch

ServiceKeywords == {"AGED/DISABLED", "ALZHEIMER", "MEMORY CARE", "COMPLEX NURSING"}

StreetKeywords ==
    {"STREET", "AVENUE", "AVE", "DRIVE", "DR", "ROAD", "RD", "LANE", "LN",
     "COURT", "CT", "CIRCLE", "PLAZA", "BLVD", "WAY", "PKWY"}

\* re.search(r'^\d+\s+\w+|BOX\s+\d+', s, re.IGNORECASE)
NumberOrBoxSearch(s) ==
    LET d == RunEnd(s, 1, DigitChars)
        w == RunEnd(s, d + 1, WsChars)
    IN  \/ /\ d >= 1
           /\ w >= d + 1
           /\ w + 1 <= Len(s)
           /\ CharAt(s, w + 1) \in WordChars
        \/ \E k \in 1..Len(s) : \E e \in {RunEnd(s, k + 3, WsChars)} :
              /\ LiteralAtI(s, "BOX", k)
              /\ e >= k + 3
              /\ AllDigits(s, e + 1, e + 1)

\* re.search(r'STREET|AVENUE|...|PKWY', s, re.IGNORECASE)
StreetSearch(s) == \E kw \in StreetKeywords : ContainsI(s, kw)

\* re.match(r'^\d+$', s)
IsNumber(s) == Len(s) >= 1 /\ AllDigits(s, 1, Len(s))

(***************************************************************************)
(* Facility records                                                        *)
(***************************************************************************)
\* A variant of NewFacility that stores the captured groups as they are,
\* without .strip()
NewFacility_Verbatim(match, date) ==
    [town            |-> match.g1,
     county          |-> match.g2,
     zip_code        |-> match.g3,
     facility_name   |-> "",
     address         |-> "",
     phone           |-> "",
     fax             |-> "",
     licensee        |-> "",
     administrator   |-> "",
     facility_type   |-> "ALF",
     license_number  |-> "",
     total_beds      |-> "",
     services        |-> IF match.g4 # "" THEN Strip(match.g4) ELSE "",
     accreditation   |-> "",
     care_of_address |-> "",
     roster_date     |-> IF Truthy(date) THEN date ELSE ""]

\* A variant of NewFacility that forgets to clear the name and the phone
\* fields: they keep the values of the record appended last.
NewFacility_Stale(match, date) ==
    LET last == IF facilities = <<>> THEN [facility_name |-> "", phone |-> "", fax |-> ""]
                ELSE facilities[Len(facilities)]
    IN  [town            |-> Strip(match.g1),
         county          |-> Strip(match.g2),
         zip_code        |-> Strip(match.g3),
         facility_name   |-> last.facility_name,
         address         |-> "",
         phone           |-> last.phone,
         fax             |-> last.fax,
         licensee        |-> "",
         administrator   |-> "",
         facility_type   |-> "ALF",
         license_number  |-> "",
         total_beds      |-> "",
         services        |-> IF match.g4 # "" THEN Strip(match.g4) ELSE "",
         accreditation   |-> "",
         care_of_address |-> "",
         roster_date     |-> IF Truthy(date) THEN date ELSE ""]

\* A variant of NewFacility that leaves roster_date empty
NewFacility_Undated(match, date) ==
    [town            |-> Strip(match.g1),
     county          |-> Strip(match.g2),
     zip_code        |-> Strip(match.g3),
     facility_name   |-> "",
     address         |-> "",
     phone           |-> "",
     fax             |-> "",
     licensee        |-> "",
     administrator   |-> "",
     facility_type   |-> "ALF",
     license_number  |-> "",
     total_beds      |-> "",
     services        |-> IF match.g4 # "" THEN Strip(match.g4) ELSE "",
     accreditation   |-> "",
     care_of_address |-> "",
     roster_date     |-> ""]

\* The dict built when a header line is recognized (lines 77-94);
\* match is location_pattern's match object.
NewFacility(match, date) ==
    [town            |-> Strip(match.g1),
     county          |-> Strip(match.g2),
     zip_code        |-> Strip(match.g3),
     facility_name   |-> "",
     address         |-> "",
     phone           |-> "",
     fax             |-> "",
     licensee        |-> "",
     administrator   |-> "",
     facility_type   |-> "ALF",
     license_number  |-> "",
     total_beds      |-> "",
     services        |-> IF match.g4 # "" THEN Strip(match.g4) ELSE "",
     accreditation   |-> "",
     care_of_address |-> "",
     roster_date     |-> IF Truthy(date) THEN date ELSE ""]

\* The value of facility while no record is under construction
NoFacility == [open |-> FALSE]

\* A variant of AppendService that replaces the services with the new text
AppendService_Overwrite(f, s) == [f EXCEPT !.services = s]

\* services += '; ' + s when services is non-empty, services = s otherwise
AppendService(f, s) ==
    [f EXCEPT !.services = IF f.services # "" THEN f.services \o "; " \o s ELSE s]

(***************************************************************************)
(* The body-line rules of the inner loop, in the order of the code.  Each  *)
(* has the condition of its if statement and the effect of its block; l is *)
(* next_line, already stripped.                                            *)
(***************************************************************************)
\* lines 107-118: page banner and column headers
IsPageHeader(l) ==
    \/ Contains(l, "ASSISTED LIVING FACILITY ROSTER")
    \/ StartsWith(l, "TOWN") /\ Contains(l, "Zip Code")
    \/ StartsWith(l, "Name of Facility")
    \/ StartsWith(l, "Administration")

\* A variant of BedsServicesCond that takes every non-empty remainder
BedsServicesCond_AnyRemainder(remainder) == remainder # ""

\* line 126: remainder and 'NURSING' in remainder or 'ALZHEIMER' in remainder
\*           or 'MEMORY' in remainder
BedsServicesCond(remainder) ==
    \/ remainder # "" /\ Contains(remainder, "NURSING")
    \/ Contains(remainder, "ALZHEIMER")
    \/ Contains(remainder, "MEMORY")

\* lines 121-132
BedsCond(l) == BedsSearch(l).ok

BedsApply(f, l) ==
    LET g == [f EXCEPT !.total_beds = BedsSearch(l).g1]
        remainder == Strip(BedsRemoved(l))
    IN  IF BedsServicesCond(remainder) THEN AppendService(g, remainder) ELSE g

\* A variant of LicenseCond without the test that license_number is empty
LicenseCond_Overwrite(f, l) == LicenseSearch(l).ok

\* lines 135-143
LicenseCond(f, l) == LicenseSearch(l).ok /\ f.license_number = ""

\* A variant of LicenseApply that takes the name before the token whether or
\* not the record has a name already
LicenseApply_Rename(f, l) ==
    LET m == LicenseSearch(l)
        g == [f EXCEPT !.license_number = m.g1]
        name_part == Strip(SubSeq(l, 1, m.from - 1))
    IN  IF name_part # "" THEN [g EXCEPT !.facility_name = name_part] ELSE g

LicenseApply(f, l) ==
    LET m == LicenseSearch(l)
        g == [f EXCEPT !.license_number = m.g1]
        \* next_line.split(token)[0].strip()
        name_part == Strip(SubSeq(l, 1, m.from - 1))
    IN  IF name_part # "" /\ f.facility_name = ""
        THEN [g EXCEPT !.facility_name = name_part]
        ELSE g

\* A variant of PhoneCond without the test that phone is empty
PhoneCond_Again(f, l) == PhoneSearch(l).ok

\* lines 146-153
PhoneCond(f, l) == PhoneSearch(l).ok /\ f.phone = ""

PhoneApply(f, l) ==
    LET g == [f EXCEPT !.phone = FormatPhone(PhoneSearch(l))]
    IN  IF FaxSearch(l).ok THEN [g EXCEPT !.fax = FormatPhone(FaxSearch(l))] ELSE g

\* lines 156-161
\* 'ADMINISTRATOR' in next_line.upper().  upper() makes a letter A-Z of that
\* letter and of its lower-case form only; the letters that it turns into
\* more than one character give SS, or a letter followed by a mark or by a
\* letter beyond ASCII, none of which fits inside the word.
AdminCond(l) == ContainsI(l, "ADMINISTRATOR")

AdminApply(f, l) ==
    IF AdminMatch(l).ok
    THEN [f EXCEPT !.administrator = Strip(AdminMatch(l).g1)]
    ELSE f

\* lines 164-167
\* next_line.lower().startswith('c/o:').  lower() keeps the length of a
\* string of this module and makes a c or an o of that letter and of its
\* upper-case form only.
CareOfCond(l) == LiteralAtI(l, "c/o:", 1)

CareOfApply(f, l) == [f EXCEPT !.care_of_address = Strip(SubSeq(l, 5, Len(l)))]

\* lines 170-176
ServicesCond(l) == \E svc \in ServiceKeywords : Contains(l, svc)

ServicesApply(f, l) == AppendService(f, l)

\* lines 179-182
AccreditationCond(l) == l = "CARF"

AccreditationApply(f, l) == [f EXCEPT !.accreditation = l]

\* lines 185-190
AddressCond(l) == NumberOrBoxSearch(l) \/ StreetSearch(l)

AddressApply(f, l) == IF f.address = "" THEN [f EXCEPT !.address = l] ELSE f

\* lines 193-204
FallbackCond(f, l) ==
    /\ l # ""
    /\ f.licensee = ""
    /\ ~StartsWith(l, "Page ")
    /\ ~IsNumber(l)
    /\ len(l) > 3

\* A variant of FallbackApply that fills the licensee before the name
FallbackApply_LicenseeFirst(f, l) ==
    IF f.licensee = ""
    THEN [f EXCEPT !.licensee = l]
    ELSE [f EXCEPT !.facility_name = l]

\* A variant of FallbackApply that stores an unclassified line as the town
FallbackApply_Town(f, l) == [f EXCEPT !.town = l]

FallbackApply(f, l) ==
    IF f.facility_name = ""
    THEN [f EXCEPT !.facility_name = l]
    ELSE [f EXCEPT !.licensee = l]

\* The rule that handles body line l of record f: the first block of the
\* inner loop whose condition holds ("none": the line falls through to 206).
BodyRule(f, l) ==
    IF IsPageHeader(l) THEN "page_header"
    ELSE IF BedsCond(l) THEN "beds"
    ELSE IF LicenseCond(f, l) THEN "license"
    ELSE IF PhoneCond(f, l) THEN "phone"
    ELSE IF AdminCond(l) THEN "administrator"
    ELSE IF CareOfCond(l) THEN "care_of"
    ELSE IF ServicesCond(l) THEN "services"
    ELSE IF AccreditationCond(l) THEN "accreditation"
    ELSE IF AddressCond(l) THEN "address"
    ELSE IF FallbackCond(f, l) THEN "fallback"
    ELSE "none"

\* A variant of ParseBodyLine that drops a line with a license token once the
\* record has a license number, instead of passing it to the later blocks
ParseBodyLine_DropLicense(f, l) ==
    IF IsPageHeader(l) THEN f
    ELSE IF BedsCond(l) THEN BedsApply(f, l)
    ELSE IF LicenseSearch(l).ok
         THEN IF f.license_number = "" THEN LicenseApply(f, l) ELSE f
    ELSE IF PhoneCond(f, l) THEN PhoneApply(f, l)
    ELSE IF AdminCond(l) THEN AdminApply(f, l)
    ELSE IF CareOfCond(l) THEN CareOfApply(f, l)
    ELSE IF ServicesCond(l) THEN ServicesApply(f, l)
    ELSE IF AccreditationCond(l) THEN AccreditationApply(f, l)
    ELSE IF AddressCond(l) THEN AddressApply(f, l)
    ELSE IF FallbackCond(f, l) THEN FallbackApply(f, l)
    ELSE f

\* A variant of ParseBodyLine whose bed-count block does not end with
\* "continue", so that the line goes on to the license block
ParseBodyLine_FallThrough(f, l) ==
    IF IsPageHeader(l) THEN f
    ELSE IF BedsCond(l)
         THEN IF LicenseCond(f, l)
              THEN LicenseApply(BedsApply(f, l), l)
              ELSE BedsApply(f, l)
    ELSE IF LicenseCond(f, l) THEN LicenseApply(f, l)
    ELSE IF PhoneCond(f, l) THEN PhoneApply(f, l)
    ELSE IF AdminCond(l) THEN AdminApply(f, l)
    ELSE IF CareOfCond(l) THEN CareOfApply(f, l)
    ELSE IF ServicesCond(l) THEN ServicesApply(f, l)
    ELSE IF AccreditationCond(l) THEN AccreditationApply(f, l)
    ELSE IF AddressCond(l) THEN AddressApply(f, l)
    ELSE IF FallbackCond(f, l) THEN FallbackApply(f, l)
    ELSE f

\* One pass of the inner loop's body over a non-header line (lines 106-206)
ParseBodyLine(f, l) ==
    IF IsPageHeader(l) THEN f
    ELSE IF BedsCond(l) THEN BedsApply(f, l)
    ELSE IF LicenseCond(f, l) THEN LicenseApply(f, l)
    ELSE IF PhoneCond(f, l) THEN PhoneApply(f, l)
    ELSE IF AdminCond(l) THEN AdminApply(f, l)
    ELSE IF CareOfCond(l) THEN CareOfApply(f, l)
    ELSE IF ServicesCond(l) THEN ServicesApply(f, l)
    ELSE IF AccreditationCond(l) THEN AccreditationApply(f, l)
    ELSE IF AddressCond(l) THEN AddressApply(f, l)
    ELSE IF FallbackCond(f, l) THEN FallbackApply(f, l)
    ELSE f

\* A variant of Retained that keeps a record only when it has a name
Retained_NameOnly(f) == f.facility_name # ""

\* line 209: facility.get('facility_name') or facility.get('license_number')
Retained(f) == f.facility_name # "" \/ f.license_number # ""

\* lines 208-210
Finalize(fs, f) == IF Retained(f) THEN Append(fs, f) ELSE fs

\* lines[i].strip(), i the 0-based cursor
LineAt(k) == Strip(lines[k + 1])

IsHeader(l) == location_pattern(l).ok

(***************************************************************************)
(* parse_page_text as a step machine                                       *)
(***************************************************************************)
parseVars == <<text, lines, i, facility, facilities>>

extractVars == <<pages, skip_pages, roster_date, page_num, extracted, origin, result, caller>>

csvVars == <<records, out_file, written>>

\* lines 70-96: the outer loop finds a header line and opens a record
OuterHeader ==
    /\ pc = "outer"
    /\ i < Len(lines)
    /\ \E line \in {LineAt(i)} :
          /\ IsHeader(line)
          /\ facility' = NewFacility(location_pattern(line), roster_date)
    /\ i' = i + 1
    /\ pc' = "inner"
    /\ UNCHANGED <<text, lines, facilities, extractVars, csvVars>>

\* A variant of OuterSkip without the i += 1 of line 212
OuterSkip_NoAdvance ==
    /\ pc = "outer"
    /\ i < Len(lines)
    /\ \E line \in {LineAt(i)} : ~IsHeader(line)
    /\ UNCHANGED vars

\* lines 70-75, 211-212: a line outside any record is passed over
OuterSkip ==
    /\ pc = "outer"
    /\ i < Len(lines)
    /\ \E line \in {LineAt(i)} : ~IsHeader(line)
    /\ i' = i + 1
    /\ UNCHANGED <<text, lines, facility, facilities, pc, extractVars, csvVars>>

\* lines 99-206: one body line of the open record
BodyLine ==
    /\ pc = "inner"
    /\ i < Len(lines)
    /\ \E next_line \in {LineAt(i)} :
          /\ ~IsHeader(next_line)
          /\ facility' = ParseBodyLine(facility, next_line)
    /\ i' = i + 1
    /\ UNCHANGED <<text, lines, facilities, pc, extractVars, csvVars>>

\* A variant of InnerBreak that advances the cursor past the header line
InnerBreak_Consume ==
    /\ pc = "inner"
    /\ i < Len(lines)
    /\ \E next_line \in {LineAt(i)} : IsHeader(next_line)
    /\ facilities' = Finalize(facilities, facility)
    /\ facility' = NoFacility
    /\ i' = i + 1
    /\ pc' = "outer"
    /\ UNCHANGED <<text, lines, extractVars, csvVars>>

\* lines 103-104, 208-210: the next header ends the body scan; the cursor
\* stays on the header line for the outer loop
InnerBreak ==
    /\ pc = "inner"
    /\ i < Len(lines)
    /\ \E next_line \in {LineAt(i)} : IsHeader(next_line)
    /\ facilities' = Finalize(facilities, facility)
    /\ facility' = NoFacility
    /\ pc' = "outer"
    /\ UNCHANGED <<text, lines, i, extractVars, csvVars>>

\* lines 99, 208-210: the lines are exhausted inside a record
InnerEnd ==
    /\ pc = "inner"
    /\ i >= Len(lines)
    /\ facilities' = Finalize(facilities, facility)
    /\ facility' = NoFacility
    /\ pc' = "outer"
    /\ UNCHANGED <<text, lines, i, extractVars, csvVars>>

\* A variant of ParseReturn that puts the page's records before the records
\* of the earlier pages
ParseReturn_Prepend ==
    /\ pc = "outer"
    /\ i >= Len(lines)
    /\ IF caller = "extract"
       THEN /\ result' = facilities \o result
            /\ origin' = [k \in 1..Len(facilities) |-> page_num] \o origin
            /\ page_num' = page_num + 1
            /\ pc' = "pages"
       ELSE /\ pc' = "returned"
            /\ UNCHANGED <<result, origin, page_num>>
    /\ UNCHANGED <<parseVars, pages, skip_pages, roster_date, extracted, caller, csvVars>>

\* line 214, and lines 43-44 when the caller is extract_facilities_from_pdf
ParseReturn ==
    /\ pc = "outer"
    /\ i >= Len(lines)
    /\ IF caller = "extract"
       THEN /\ result' = result \o facilities
            /\ origin' = origin \o [k \in 1..Len(facilities) |-> page_num]
            /\ page_num' = page_num + 1
            /\ pc' = "pages"
       ELSE /\ pc' = "returned"
            /\ UNCHANGED <<result, origin, page_num>>
    /\ UNCHANGED <<parseVars, pages, skip_pages, roster_date, extracted, caller, csvVars>>

ParseNext == OuterHeader \/ OuterSkip \/ BodyLine \/ InnerBreak \/ InnerEnd \/ ParseReturn

(***************************************************************************)
(* extract_facilities_from_pdf                                             *)
(***************************************************************************)
\* A variant of Skipped that lets the last of the skipped pages through
Skipped_OffByOne(n) == n + 1 < skip_pages

\* line 35: page_num < skip_pages
Skipped(n) == n < skip_pages

\* lines 33-36
SkipPage ==
    /\ pc = "pages"
    /\ page_num < Len(pages)
    /\ Skipped(page_num)
    /\ page_num' = page_num + 1
    /\ UNCHANGED <<parseVars, pages, skip_pages, roster_date, extracted, origin, result, caller, pc, csvVars>>

\* A variant of EmptyPage that ends the page loop at a page without text
EmptyPage_Abort ==
    /\ pc = "pages"
    /\ page_num < Len(pages)
    /\ ~Skipped(page_num)
    /\ extracted' = Append(extracted, page_num)
    /\ ~Truthy(pages[page_num + 1])
    /\ page_num' = Len(pages)
    /\ UNCHANGED <<parseVars, pages, skip_pages, roster_date, origin, result, caller, pc, csvVars>>

\* lines 38-40
EmptyPage ==
    /\ pc = "pages"
    /\ page_num < Len(pages)
    /\ ~Skipped(page_num)
    /\ extracted' = Append(extracted, page_num)
    /\ ~Truthy(pages[page_num + 1])
    /\ page_num' = page_num + 1
    /\ UNCHANGED <<parseVars, pages, skip_pages, roster_date, origin, result, caller, pc, csvVars>>

\* lines 38-43, 60-69: the page has text and parse_page_text is entered
CallParse ==
    /\ pc = "pages"
    /\ page_num < Len(pages)
    /\ ~Skipped(page_num)
    /\ extracted' = Append(extracted, page_num)
    /\ Truthy(pages[page_num + 1])
    /\ text' = pages[page_num + 1]
    /\ lines' = Split(pages[page_num + 1])
    /\ i' = 0
    /\ facilities' = <<>>
    /\ facility' = NoFacility
    /\ pc' = "outer"
    /\ UNCHANGED <<pages, skip_pages, roster_date, page_num, origin, result, caller, csvVars>>

\* line 46
ExtractReturn ==
    /\ pc = "pages"
    /\ page_num >= Len(pages)
    /\ pc' = "done"
    /\ UNCHANGED <<parseVars, extractVars, csvVars>>

ExtractNext == SkipPage \/ EmptyPage \/ CallParse \/ ExtractReturn

(***************************************************************************)
(* facilities_to_csv: csv.DictWriter with the default (excel) dialect      *)
(***************************************************************************)
\* lines 224-229
fieldnames ==
    <<"roster_date", "town", "county", "zip_code", "facility_name", "address",
      "phone", "fax", "licensee", "administrator", "facility_type",
      "license_number", "total_beds", "services", "accreditation",
      "care_of_address">>

\* The first index j >= k with s[j] in class; Len(s) + 1 when there is none
NextIn(s, k, class) ==
    LET at == {j \in k..Len(s) : Ch(s, j) \in class}
    IN  IF at = {} THEN Len(s) + 1 ELSE SetMin(at)

\* QUOTE_MINIMAL: a field is quoted when it holds the delimiter, the quote
\* character or a character of the line terminator
NeedsQuote(v) == NextIn(v, 1, {",", "\"", "\r", "\n"}) <= Len(v)

RECURSIVE DoubleQuotes(_)
\* doublequote: every quote character inside a quoted field is written twice
DoubleQuotes(v) ==
    LET k == Find(v, "\"")
    IN  IF k = 0 THEN v
        ELSE SubSeq(v, 1, k) \o "\"" \o DoubleQuotes(SubSeq(v, k + 1, Len(v)))

\* A variant of CsvField that writes every value as it is, never quoted
CsvField_Raw(v) == v

CsvField(v) == IF NeedsQuote(v) THEN "\"" \o DoubleQuotes(v) \o "\"" ELSE v

RECURSIVE JoinFields(_)
JoinFields(fields) ==
    IF fields = <<>> THEN ""
    ELSE IF Len(fields) = 1 THEN CsvField(fields[1])
    ELSE CsvField(fields[1]) \o "," \o JoinFields(Tail(fields))

\* writer.writerow: the fields, comma separated, and the line terminator
\* '\r\n', which newline='' leaves as it is
CsvLine(fields) == JoinFields(fields) \o "\r\n"

\* DictWriter's row of a record: its values in the order of fieldnames
RowOf(rec) == [j \in 1..Len(fieldnames) |-> rec[fieldnames[j]]]

\* A variant of CsvCheckEmpty that opens the output file before the test
CsvCheckEmpty_OpenFirst ==
    /\ pc = "csv"
    /\ records = <<>>
    /\ out_file' = ""
    /\ pc' = "ValueError"
    /\ UNCHANGED <<parseVars, extractVars, records, written>>

\* lines 221-222: raise ValueError("No facilities to write")
CsvCheckEmpty ==
    /\ pc = "csv"
    /\ records = <<>>
    /\ pc' = "ValueError"
    /\ UNCHANGED <<parseVars, extractVars, csvVars>>

\* line 231: open(output_path, 'w', newline='') creates or truncates the file
CsvOpen ==
    /\ pc = "csv"
    /\ records # <<>>
    /\ out_file' = ""
    /\ pc' = "opened"
    /\ UNCHANGED <<parseVars, extractVars, records, written>>

\* lines 232-233: writer.writeheader()
CsvWriteHeader ==
    /\ pc = "opened"
    /\ out_file' = out_file \o CsvLine(fieldnames)
    /\ pc' = "rows"
    /\ UNCHANGED <<parseVars, extractVars, records, written>>

\* line 234: writer.writerows(facilities), one record at a time
CsvWriteRow ==
    /\ pc = "rows"
    /\ written < Len(records)
    /\ out_file' = out_file \o CsvLine(RowOf(records[written + 1]))
    /\ written' = written + 1
    /\ UNCHANGED <<parseVars, extractVars, records, pc>>

\* line 231: the with block ends and the file is closed
CsvClose ==
    /\ pc = "rows"
    /\ written >= Len(records)
    /\ pc' = "closed"
    /\ UNCHANGED <<parseVars, extractVars, csvVars>>

CsvNext == CsvCheckEmpty \/ CsvOpen \/ CsvWriteHeader \/ CsvWriteRow \/ CsvClose

(***************************************************************************)
(* Reading the output back: csv.DictReader over the text of the file, as   *)
(* the unit test test_csv_output does                                      *)
(***************************************************************************)
RECURSIVE UniversalNewlines(_)
\* open(path, 'r'): with the default newline=None every '\r\n' and every
\* '\r' of the file is handed to the reader as '\n'
UniversalNewlines(s) ==
    LET k == NextIn(s, 1, {"\r"})
    IN  IF k > Len(s) THEN s
        ELSE SubSeq(s, 1, k - 1) \o "\n"
             \o UniversalNewlines(SubSeq(s, IF Ch(s, k + 1) = "\n" THEN k + 2 ELSE k + 1,
                                         Len(s)))

RECURSIVE ReadQuoted(_, _, _)
\* The rest of a quoted field from index k on, acc being what was read of
\* it: up to the closing quote, a doubled quote standing for one quote;
\* what follows the closing quote up to the next delimiter is taken as it is
ReadQuoted(s, k, acc) ==
    LET q == NextIn(s, k, {"\""})
    IN  IF q > Len(s)
        THEN [val |-> acc \o SubSeq(s, k, Len(s)), next |-> Len(s) + 1, quoted |-> TRUE]
        ELSE IF Ch(s, q + 1) = "\""
        THEN ReadQuoted(s, q + 2, acc \o SubSeq(s, k, q))
        ELSE LET e == NextIn(s, q + 1, {",", "\r", "\n"})
             IN  [val |-> acc \o SubSeq(s, k, q - 1) \o SubSeq(s, q + 1, e - 1),
                  next |-> e, quoted |-> TRUE]

\* The field that starts at index k; next is the index of the delimiter or
\* line end that follows it
ReadField(s, k) ==
    IF Ch(s, k) = "\""
    THEN ReadQuoted(s, k + 1, "")
    ELSE LET e == NextIn(s, k, {",", "\r", "\n"})
         IN  [val |-> SubSeq(s, k, e - 1), next |-> e, quoted |-> FALSE]

RECURSIVE ReadRow(_, _, _)
\* The row that starts at index k; next is the index after its line end.
\* A line without any character gives the empty row.
ReadRow(s, k, row) ==
    LET f == ReadField(s, k)
    IN  IF Ch(s, f.next) = ","
        THEN ReadRow(s, f.next + 1, Append(row, f.val))
        ELSE [row  |-> IF row = <<>> /\ f.val = "" /\ ~f.quoted
                       THEN <<>> ELSE Append(row, f.val),
              next |-> IF Ch(s, f.next) = "\r" /\ Ch(s, f.next + 1) = "\n"
                       THEN f.next + 2 ELSE f.next + 1]

RECURSIVE ReadRows(_, _, _)
\* csv.reader: the rows of s from index k on
ReadRows(s, k, rows) ==
    IF k > Len(s) THEN rows
    ELSE LET r == ReadRow(s, k, <<>>)
         IN  ReadRows(s, r.next, Append(rows, r.row))

\* csv.DictReader: the first row names the columns; every later row that is
\* not empty becomes a dict (a short row is filled up with None)
DictReader(s) ==
    LET all  == ReadRows(s, 1, <<>>)
        data == SelectSeq(Tail(all), LAMBDA r : r # <<>>)
        head == all[1]
    IN  IF all = <<>> THEN <<>>
        ELSE [n \in 1..Len(data) |->
                [name \in {head[j] : j \in 1..Len(head)} |->
                    LET j == CHOOSE j \in 1..Len(head) : head[j] = name
                    IN  IF j <= Len(data[n]) THEN data[n][j] ELSE None]]

(***************************************************************************)
(* Inputs                                                                  *)
(***************************************************************************)
\* The longest page, in lines, handed to parse_page_text directly
MaxLines == 4

\* The most body lines of the single record of a one-record page
MaxBody == 3

\* The longest page, in lines, that parse_page_text is run on to its end
MaxScan == 3

\* The most body lines of a record on the pages of lines that several rules
\* could take
MaxRule == 2

\* The longest list of records given to facilities_to_csv
MaxRows == 2

\* The longest document, in pages, handed to extract_facilities_from_pdf
MaxPages == 2

\* Raw lines as in the roster (test_parse_sample_page), and variations of them.
HeaderLines ==
    {"ADAMS (GAGE) - 68301 ALF AGED/DISABLED",
     " AINSWORTH ( BROWN ) - 69210 ALF"}

\* Lines of whole pages: banner, column header, beds, name and license,
\* license alone, phone and fax, address, and an unclassified line
PageLines ==
    {"ASSISTED LIVING FACILITY ROSTER Page 2 of 50",
     "TOWN (County) Zip Code",
     "Total Lic - 35",
     "GOLD CREST ALF066",
     "ALF046",
     "(402) 988-7115 FAX:(402) 988-2087",
     "200 LEVI LANE",
     "COTTONWOOD VILLA"}

\* Body lines of one record: the beds line with and without trailing text,
\* two license tokens, two phone numbers, both administrator markers, a
\* services line, two addresses, two unclassified lines and a line of three
\* characters, the last of them beyond the Basic Multilingual Plane
BodyLines ==
    {"Total Lic - 35",
     "Total Lic - 36 ALZHEIMER ALF777",
     "GOLD CREST ALF066",
     "ALF046",
     "(402) 988-7115 FAX:(402) 988-2087",
     "(402) 387-1000",
     "JENNIFER GRAFF, ADMINISTRATOR",
     "ANN FIALA, PROVISIONAL ADM",
     "MEMORY CARE",
     "200 LEVI LANE",
     "PO BOX 12",
     "PRAIRIE INVESTORS, LLC",
     "COTTONWOOD VILLA",
     "ab𰂀"}

SeqsUpTo(S, n) == UNION {[1..k -> S] : k \in 0..n}

RECURSIVE Join(_)
\* '\n'.join(ls)
Join(ls) ==
    IF ls = <<>> THEN ""
    ELSE IF Len(ls) = 1 THEN ls[1]
    ELSE ls[1] \o "\n" \o Join(Tail(ls))

\* The page texts given to parse_page_text: every page of at most MaxLines
\* header and page lines (the empty page included)
Texts == {Join(ls) : ls \in SeqsUpTo(HeaderLines \cup PageLines, MaxLines)}

\* One-record pages: a header line followed by at most MaxBody body lines
RecordTexts ==
    {Join(<<h>> \o body) : h \in HeaderLines, body \in SeqsUpTo(BodyLines, MaxBody)}

\* Two header lines, a body line with a license token and a line that is
\* neither: the lines of the pages parse_page_text is run on to its end
ScanLines == HeaderLines \cup {"GOLD CREST ALF066", "COTTONWOOD VILLA"}

ScanTexts == {Join(ls) : ls \in SeqsUpTo(ScanLines, MaxScan)}

\* Body lines that meet the condition of more than one rule, or of a rule in
\* several ways: bed-count lines with and without a remainder, license
\* tokens next to other markers, administrator lines in both role markers
\* and letter cases, a bed-count line with carriage returns, a services
\* line, addresses written with digits, a space and a letter beyond ASCII
\* or beyond the Basic Multilingual Plane, and a line of three characters
RuleLines ==
    {"Total Lic - 35",
     "Total\rLic - 35\r",
     "Total Lic - 36 ALZHEIMER ALF777",
     "Total Lic - 40 MED WVR",
     "Total Lic - 12 COMPLEX NURSING",
     "Total Lic - 8 MEMORY",
     "GOLD CREST ALF066",
     "VILLA ALF046 (402) 387-1000",
     "ALF046",
     "ASSISTED LIVING FACILITY ROSTER ALF123",
     "(402) 988-7115 FAX:(402) 988-2087",
     "JENNIFER GRAFF, ADMINISTRATOR",
     "ANN FIALA, PROVISIONAL ADM",
     "ann fiala, provisional adm",
     "Ann Fiala , Provisional Administrator",
     "MEMORY CARE ADMINISTRATOR",
     "c/o: 12 MAIN STREET",
     "200 LEVI LANE",
     "۱۲ école",
     "1 𰂀",
     "ab𰂀",
     "MEMORY CARE",
     "CARF",
     "PRAIRIE INVESTORS, LLC"}

\* One-record pages of these lines
RuleTexts ==
    {Join(<<h>> \o body) : h \in HeaderLines, body \in SeqsUpTo(RuleLines, MaxRule)}

\* What extract_text() returns for the pages of a document: no text at all,
\* the sample records, a record cut by the page break, its continuation,
\* a page with two records, and a page with other whitespace than spaces
\* and line feeds
PageTexts ==
    {None,
     "",
     "ADAMS (GAGE) - 68301 ALF AGED/DISABLED\nTotal Lic - 35\nGOLD CREST ALF066",
     "Name of Facility\n AINSWORTH ( BROWN ) - 69210 ALF\nADAMS (GAGE) - 68301 ALF AGED/DISABLED\nALF046",
     "ADAMS (GAGE) - 68301 ALF AGED/DISABLED",
     "COTTONWOOD VILLA\n(402) 387-1000",
     \* a page with two records
     " AINSWORTH ( BROWN ) - 69210 ALF\nCOTTONWOOD VILLA\nADAMS (GAGE) - 68301 ALF AGED/DISABLED\nALF046",
     \* a page that begins with a form feed and has CR LF line ends
     "\fADAMS (GAGE) - 68301 ALF\r\nGOLD CREST ALF066\r\nTotal\rLic - 35\r\n"}

Dates == {None, "", "2025-08-15"}

\* The records given to facilities_to_csv: the record of a header line
\* with a name and a licensee that hold a quote character, a comma, a line
\* feed or a carriage return
CsvNames == {"GOLD CREST", "THE \"VILLA\""}

CsvLicensees == {"PRAIRIE INVESTORS, LLC", "LINE ONE\nLINE TWO", "CARE\rOF"}

CsvRecords ==
    {[NewFacility(location_pattern("ADAMS (GAGE) - 68301 ALF AGED/DISABLED"), "2025-08-15")
        EXCEPT !.facility_name = n, !.licensee = l] : n \in CsvNames, l \in CsvLicensees}

\* What is at output_path before the call: nothing, or an older file
OldFiles == {Absent, "old"}

(***************************************************************************)
(* Specifications                                                          *)
(***************************************************************************)
\* extract_facilities_from_pdf(pdf_path, skip_pages, roster_date) is called,
\* by main() (which then writes the CSV file) or directly
Init ==
    /\ pages \in SeqsUpTo(PageTexts, MaxPages)
    /\ skip_pages \in 0..(MaxPages + 1)
    /\ roster_date \in Dates
    /\ page_num = 0
    /\ extracted = <<>>
    /\ origin = <<>>
    /\ result = <<>>
    /\ caller = "extract"
    /\ text = None
    /\ lines = <<>>
    /\ i = 0
    /\ facility = NoFacility
    /\ facilities = <<>>
    /\ records = <<>>
    /\ out_file \in OldFiles
    /\ written = 0
    /\ pc = "pages"

\* lines 269-273 of main(): the list that extract_facilities_from_pdf
\* returned is handed to facilities_to_csv with the output path
main ==
    /\ pc = "done"
    /\ records' = result
    /\ pc' = "csv"
    /\ UNCHANGED <<parseVars, extractVars, out_file, written>>

Next == ExtractNext \/ ParseNext \/ main \/ CsvNext

Spec == Init /\ [][Next]_vars

\* parse_page_text(text) is called directly, as the unit tests do
InitParse ==
    /\ pages = <<>>
    /\ skip_pages = 0
    /\ roster_date = None
    /\ page_num = 0
    /\ extracted = <<>>
    /\ origin = <<>>
    /\ result = <<>>
    /\ caller = "direct"
    /\ text \in Texts
    /\ lines = Split(text)
    /\ i = 0
    /\ facility = NoFacility
    /\ facilities = <<>>
    /\ records = <<>>
    /\ out_file = Absent
    /\ written = 0
    /\ pc = "outer"

SpecParse == InitParse /\ [][ParseNext]_vars

\* parse_page_text(text) is called on a page that is one record.  On these
\* pages no line precedes the header and no second header follows, so the
\* steps OuterSkip and InnerBreak are never enabled.
InitRecord ==
    /\ pages = <<>>
    /\ skip_pages = 0
    /\ roster_date = None
    /\ page_num = 0
    /\ extracted = <<>>
    /\ origin = <<>>
    /\ result = <<>>
    /\ caller = "direct"
    /\ text \in RecordTexts
    /\ lines = Split(text)
    /\ i = 0
    /\ facility = NoFacility
    /\ facilities = <<>>
    /\ records = <<>>
    /\ out_file = Absent
    /\ written = 0
    /\ pc = "outer"

RecordNext == OuterHeader \/ BodyLine \/ InnerEnd \/ ParseReturn

SpecRecord == InitRecord /\ [][RecordNext]_vars

\* parse_page_text(text) is called and runs to its end: the steps of the
\* function are taken for as long as one is possible (a Python call that has
\* started keeps executing).  The pages are the texts of at most MaxScan
\* lines of ScanLines.
InitScan ==
    /\ pages = <<>>
    /\ skip_pages = 0
    /\ roster_date = None
    /\ page_num = 0
    /\ extracted = <<>>
    /\ origin = <<>>
    /\ result = <<>>
    /\ caller = "direct"
    /\ text \in ScanTexts
    /\ lines = Split(text)
    /\ i = 0
    /\ facility = NoFacility
    /\ facilities = <<>>
    /\ records = <<>>
    /\ out_file = Absent
    /\ written = 0
    /\ pc = "outer"

SpecScan == InitScan /\ [][ParseNext]_vars /\ WF_vars(ParseNext)

\* parse_page_text(text) is called on a page that is one record whose body
\* lines are drawn from RuleLines
InitRule ==
    /\ pages = <<>>
    /\ skip_pages = 0
    /\ roster_date = None
    /\ page_num = 0
    /\ extracted = <<>>
    /\ origin = <<>>
    /\ result = <<>>
    /\ caller = "direct"
    /\ text \in RuleTexts
    /\ lines = Split(text)
    /\ i = 0
    /\ facility = NoFacility
    /\ facilities = <<>>
    /\ records = <<>>
    /\ out_file = Absent
    /\ written = 0
    /\ pc = "outer"

SpecRule == InitRule /\ [][RecordNext]_vars

\* facilities_to_csv(facilities, output_path) is called
InitCsv ==
    /\ pages = <<>>
    /\ skip_pages = 0
    /\ roster_date = None
    /\ page_num = 0
    /\ extracted = <<>>
    /\ origin = <<>>
    /\ result = <<>>
    /\ caller = "direct"
    /\ text = None
    /\ lines = <<>>
    /\ i = 0
    /\ facility = NoFacility
    /\ facilities = <<>>
    /\ records \in SeqsUpTo(CsvRecords, MaxRows)
    /\ out_file \in OldFiles
    /\ written = 0
    /\ pc = "csv"

SpecCsv == InitCsv /\ [][CsvNext]_vars

(***************************************************************************)
(* Properties: definitions shared by the statements below                  *)
(***************************************************************************)
\* 0-based indexes of the header lines of the page being parsed
HeaderIndexes == {h \in 0..(Len(lines) - 1) : IsHeader(LineAt(h))}

\* Where the body of the record opened at header h ends: the next header,
\* or the end of the lines
BodyEnd(h) ==
    LET nxt == {k \in HeaderIndexes : k > h}
    IN  IF nxt = {} THEN Len(lines) ELSE SetMin(nxt)

\* The record a header line opens, as the data model describes it: the
\* header's own fields, every body field empty
Blank(h) ==
    LET m == location_pattern(LineAt(h))
    IN  [town |-> Strip(m.g1), county |-> Strip(m.g2), zip_code |-> Strip(m.g3),
         facility_name |-> "", address |-> "", phone |-> "", fax |-> "",
         licensee |-> "", administrator |-> "", facility_type |-> "ALF",
         license_number |-> "", total_beds |-> "", services |-> Strip(m.g4),
         accreditation |-> "", care_of_address |-> "",
         roster_date |-> IF roster_date = None THEN "" ELSE roster_date]

RECURSIVE ScanBody(_, _, _)
\* f after the body lines k .. e-1
ScanBody(f, k, e) ==
    IF k >= e THEN f ELSE ScanBody(ParseBodyLine(f, LineAt(k)), k + 1, e)

\* The record of header h built from the lines of its own body and nothing else
OwnRecord(h) == ScanBody(Blank(h), h + 1, BodyEnd(h))

RECURSIVE Ascending(_)
\* The members of a set of numbers in increasing order
Ascending(S) ==
    IF S = {} THEN <<>> ELSE <<SetMin(S)>> \o Ascending(S \ {SetMin(S)})

\* The header lines whose record is kept, in page order
KeptHeaders ==
    Ascending({h \in HeaderIndexes :
                 OwnRecord(h).facility_name # "" \/ OwnRecord(h).license_number # ""})

RECURSIVE LastHeaderUpTo(_)
\* The last header line at or before 0-based index k (-1: there is none)
LastHeaderUpTo(k) ==
    IF k < 0 THEN -1
    ELSE IF IsHeader(LineAt(k)) THEN k
    ELSE LastHeaderUpTo(k - 1)

\* The header that opened the record under construction (pc = "inner")
CurrentHeader == LastHeaderUpTo(i - 1)

(***************************************************************************)
(* C1.  Every body line modifies only the record opened by the nearest     *)
(* preceding header line: the record under construction is the blank       *)
(* record of that header changed by the lines since that header and by     *)
(* nothing else, every returned record is built from the lines of its own  *)
(* body only, and a record exists only once a header line has been read.   *)
(***************************************************************************)
C1_OwnRecordOnly ==
    /\ pc = "inner" =>
          facility = ScanBody(Blank(CurrentHeader), CurrentHeader + 1, i)
    /\ pc = "returned" =>
          \A k \in 1..Len(facilities) :
              \E h \in HeaderIndexes : facilities[k] = OwnRecord(h)
    /\ (facilities # <<>> \/ facility # NoFacility) => LastHeaderUpTo(i - 1) >= 0

\* Two records are returned; the second has no name although the first has
C1_Witness ==
    /\ pc = "returned"
    /\ Len(facilities) = 2
    /\ facilities[1].facility_name = "GOLD CREST"
    /\ facilities[1].license_number = "ALF066"
    /\ facilities[2].facility_name = ""
    /\ facilities[2].license_number = "ALF046"

(***************************************************************************)
(* C2.  The records are returned in the order of their header lines: the   *)
(* output is the kept records of the headers, in page order; a header line *)
(* met by the body scan is left under the cursor, and the step after it    *)
(* opens that header's record; a record in the output never changes.       *)
(***************************************************************************)
C2_HeaderOrder ==
    /\ [](pc = "returned" =>
            facilities = [k \in 1..Len(KeptHeaders) |-> OwnRecord(KeptHeaders[k])])
    /\ [][pc = "inner" /\ i < Len(lines) /\ IsHeader(LineAt(i))
            => i' = i /\ pc' = "outer"]_vars
    /\ [][pc = "outer" /\ i < Len(lines) /\ IsHeader(LineAt(i))
            => i' = i + 1 /\ pc' = "inner" /\ facility' = Blank(i)]_vars
    /\ [][\A k \in 1..Len(facilities) :
            k <= Len(facilities') /\ facilities'[k] = facilities[k]]_vars

\* Two records were returned, the second header's record after the first's
C2_Witness ==
    /\ pc = "returned"
    /\ Len(facilities) = 2
    /\ facilities[1].town = "AINSWORTH"
    /\ facilities[2].town = "ADAMS"
    /\ Cardinality(HeaderIndexes) = 2

(***************************************************************************)
(* C3.  When a record's body scan ends, the record is left out of the      *)
(* output if and only if its facility_name and its license_number are both *)
(* empty; otherwise it is appended to the output.                          *)
(***************************************************************************)
C3_DiscardIffBothEmpty ==
    [][pc = "inner" /\ pc' = "outer" =>
         IF facility.facility_name = "" /\ facility.license_number = ""
         THEN facilities' = facilities
         ELSE facilities' = Append(facilities, facility)]_vars

\* A page of two headers: one record was discarded; the other, which has a
\* license number and no name, was kept
C3_Witness ==
    /\ pc = "returned"
    /\ Cardinality(HeaderIndexes) = 2
    /\ Len(facilities) = 1
    /\ facilities[1].facility_name = ""
    /\ facilities[1].license_number # ""

(***************************************************************************)
(* C4, as claimed.  Every header line yields exactly one returned record   *)
(* whose town, county and zip_code are the captured groups verbatim: the   *)
(* number of returned records equals the number of header lines.           *)
(***************************************************************************)
C4_Original ==
    pc = "returned" =>
        /\ Len(facilities) = Cardinality(HeaderIndexes)
        /\ \A k \in 1..Len(facilities) :
              LET m == location_pattern(LineAt(Ascending(HeaderIndexes)[k]))
              IN  /\ facilities[k].town = m.g1
                  /\ facilities[k].county = m.g2
                  /\ facilities[k].zip_code = m.g3

(***************************************************************************)
(* C4, amended.  Every header line opens exactly one record whose town,    *)
(* county and zip_code are the captured groups with the surrounding        *)
(* whitespace stripped; the returned records are those of the header lines *)
(* whose record is kept, one each, so there are at most as many as header  *)
(* lines.                                                                  *)
(***************************************************************************)
C4_Amended ==
    /\ pc = "inner" =>
          LET m == location_pattern(LineAt(CurrentHeader))
          IN  /\ facility.town = Strip(m.g1)
              /\ facility.county = Strip(m.g2)
              /\ facility.zip_code = Strip(m.g3)
    /\ pc = "returned" =>
          /\ Len(facilities) = Len(KeptHeaders)
          /\ Len(facilities) <= Cardinality(HeaderIndexes)
          /\ \A k \in 1..Len(facilities) :
                LET m == location_pattern(LineAt(KeptHeaders[k]))
                IN  /\ facilities[k].town = Strip(m.g1)
                    /\ facilities[k].county = Strip(m.g2)
                    /\ facilities[k].zip_code = Strip(m.g3)

\* Of two header lines one record is returned, and its county is the
\* captured group " BROWN " without the blanks
C4_Witness ==
    /\ pc = "returned"
    /\ Cardinality(HeaderIndexes) = 2
    /\ Len(facilities) = 1
    /\ facilities[1].county = "BROWN"
    /\ location_pattern(LineAt(KeptHeaders[1])).g2 = " BROWN "

(***************************************************************************)
(* C5.  Every record parse_page_text has appended to its output has a      *)
(* non-empty facility_name.                                                *)
(***************************************************************************)
C5_NamePopulated ==
    \A k \in 1..Len(facilities) : facilities[k].facility_name # ""

(***************************************************************************)
(* C6.  A page text none of whose lines is a header line (the empty text,  *)
(* banner lines, any other lines) opens no record and returns the empty    *)
(* sequence.                                                               *)
(***************************************************************************)
C6_NoHeaderNoRecords ==
    (\A k \in 1..Len(lines) : lines[k] \notin HeaderLines) =>
        /\ facilities = <<>>
        /\ facility = NoFacility
        /\ pc \in {"outer", "returned"}

\* parse_page_text has returned from a page of a banner line and a line
\* holding a license token
C6_Witness ==
    /\ pc = "returned"
    /\ Len(lines) >= 2
    /\ \A k \in 1..Len(lines) : lines[k] \notin HeaderLines
    /\ Contains(lines[1], "ASSISTED LIVING FACILITY ROSTER")
    /\ LicenseSearch(lines[2]).ok
    /\ facilities = <<>>

(***************************************************************************)
(* C7.  license_number is immutable once set within a record: a body line  *)
(* never changes a non-empty license_number, so the license_number of the  *)
(* record under construction is the token of the first body line that      *)
(* reached the license rule, whatever tokens later lines carry.            *)
(***************************************************************************)
\* The body lines read so far, of the record under construction, that the
\* license rule can take: lines with a license token that are neither page
\* headers nor bed-count lines
LicenseLines ==
    {k \in (CurrentHeader + 1)..(i - 1) :
        /\ ~IsPageHeader(LineAt(k))
        /\ ~BedsCond(LineAt(k))
        /\ LicenseSearch(LineAt(k)).ok}

C7_LicenseImmutable ==
    /\ [][pc = "inner" /\ pc' = "inner" /\ facility.license_number # ""
            => facility'.license_number = facility.license_number]_vars
    /\ [](pc = "inner" =>
            facility.license_number =
                IF LicenseLines = {} THEN ""
                ELSE LicenseSearch(LineAt(SetMin(LicenseLines))).g1)

\* The record holds ALF066 and the line just read carries the token ALF046
C7_Witness ==
    /\ pc = "inner"
    /\ i >= 3
    /\ facility.license_number = "ALF066"
    /\ LicenseSearch(LineAt(i - 1)).ok
    /\ LicenseSearch(LineAt(i - 1)).g1 = "ALF046"
    /\ BodyRule(facility, LineAt(i - 1)) # "license"

(***************************************************************************)
(* C8.  phone, fax, address, facility_name and licensee are first match    *)
(* wins within a record: once one of them is non-empty no body line of the *)
(* record changes it, whichever rule the line triggers.                    *)
(***************************************************************************)
FirstMatchFields == {"phone", "fax", "address", "facility_name", "licensee"}

C8_FirstMatchWins ==
    [][pc = "inner" /\ pc' = "inner" =>
         \A fld \in FirstMatchFields :
             facility[fld] # "" => facility'[fld] = facility[fld]]_vars

\* The name came from an unclassified line, and the license line read after
\* it, which has a name before its token, set the license number only
C8_Witness ==
    /\ pc = "inner"
    /\ i >= 3
    /\ LineAt(i - 1) = "GOLD CREST ALF066"
    /\ facility.facility_name = "COTTONWOOD VILLA"
    /\ facility.license_number = "ALF066"

(***************************************************************************)
(* C9.  parse_page_text terminates on every page and returns without       *)
(* raising.  The cursor stays within 0..len(lines), so lines[i] is never   *)
(* out of range; the cursor never decreases: every step advances it by     *)
(* one, or leaves it where it is and hands the header line under it from   *)
(* the body scan back to the outer loop, or ends a body scan at the end of *)
(* the lines, or returns; after a hand-back the next step advances past    *)
(* the header line; the function returns only with the cursor at           *)
(* len(lines); every step decreases the natural number CursorMeasure; and  *)
(* every run that keeps taking steps reaches the return.                   *)
(***************************************************************************)
CursorMeasure ==
    2 * (Len(lines) - i) + (IF pc = "inner" THEN 1 ELSE 0)
                         + (IF pc = "returned" THEN 0 ELSE 1)

C9_Terminates ==
    /\ [](i \in 0..Len(lines) /\ pc \in {"outer", "inner", "returned"})
    /\ [](pc = "returned" => i = Len(lines))
    /\ [][\/ i' = i + 1 /\ i < Len(lines)
          \/ i' = i /\ pc = "inner" /\ pc' = "outer"
          \/ i' = i /\ pc = "outer" /\ pc' = "returned" /\ i = Len(lines)]_vars
    /\ [][pc = "inner" /\ pc' = "outer" /\ i < Len(lines)
            => IsHeader(LineAt(i))]_vars
    /\ [][pc = "outer" /\ i < Len(lines) /\ IsHeader(LineAt(i)) => i' = i + 1]_vars
    /\ [][CursorMeasure' < CursorMeasure /\ CursorMeasure' >= 0]_vars
    /\ <>(pc = "returned")

\* parse_page_text has returned from a page of three lines on which a line
\* before the first header was passed over and the body scan handed a
\* header line back to the outer loop
C9_Witness ==
    /\ pc = "returned"
    /\ i = Len(lines)
    /\ Len(lines) = 3
    /\ ~IsHeader(LineAt(0))
    /\ IsHeader(LineAt(1))
    /\ IsHeader(LineAt(2))

(***************************************************************************)
(* C10.  In extract_facilities_from_pdf the pages with an index below      *)
(* skip_pages contribute no record and extract_text is never called on     *)
(* them, whatever they hold; the pages from skip_pages on are all visited, *)
(* in order, each once.                                                    *)
(***************************************************************************)
C10_SkippedPagesIgnored ==
    /\ \A k \in 1..Len(extracted) : extracted[k] = skip_pages + k - 1
    /\ Len(origin) = Len(result)
    /\ \A k \in 1..Len(origin) : origin[k] >= skip_pages
    /\ pc = "done" =>
          Len(extracted) = IF Len(pages) > skip_pages THEN Len(pages) - skip_pages ELSE 0

\* A document of two pages that both hold records was read with
\* skip_pages = 1: the records returned are those of the second page
C10_Witness ==
    /\ pc = "done"
    /\ skip_pages = 1
    /\ Len(pages) = 2
    /\ Truthy(pages[1])
    /\ \E k \in 1..Len(Split(pages[1])) : IsHeader(Strip(Split(pages[1])[k]))
    /\ extracted = <<1>>
    /\ result # <<>>
    /\ \A k \in 1..Len(origin) : origin[k] = 1

(***************************************************************************)
(* parse_page_text as a function of the page text and the date tag alone:  *)
(* the records the two loops append for the lines ls, computed from the    *)
(* first line on with nothing but the lines as input.                      *)
(***************************************************************************)
RECURSIVE ScanLinesFrom(_, _, _, _, _)
\* k: 1-based index of the next line; f: the record under construction
\* (NoFacility outside a record); fs: the records appended so far
ScanLinesFrom(ls, k, f, fs, date) ==
    IF k > Len(ls)
    THEN IF f = NoFacility THEN fs ELSE Finalize(fs, f)
    ELSE IF IsHeader(Strip(ls[k]))
    THEN ScanLinesFrom(ls, k + 1, NewFacility(location_pattern(Strip(ls[k])), date),
                       IF f = NoFacility THEN fs ELSE Finalize(fs, f), date)
    ELSE IF f = NoFacility
    THEN ScanLinesFrom(ls, k + 1, f, fs, date)
    ELSE ScanLinesFrom(ls, k + 1, ParseBodyLine(f, Strip(ls[k])), fs, date)

PageRecords(t, date) == ScanLinesFrom(Split(t), 1, NoFacility, <<>>, date)

\* What page n (0-based) contributes: nothing when it is skipped or has no
\* text, the records of its own text otherwise
PageContribution(n) ==
    IF n < skip_pages \/ ~Truthy(pages[n + 1])
    THEN <<>>
    ELSE PageRecords(pages[n + 1], roster_date)

RECURSIVE ResultUpTo(_)
\* The contributions of the pages 0 .. n-1, in page order
ResultUpTo(n) ==
    IF n = 0 THEN <<>> ELSE ResultUpTo(n - 1) \o PageContribution(n - 1)

(***************************************************************************)
(* C11.  The result of extract_facilities_from_pdf is the concatenation,   *)
(* in increasing page index, of parse_page_text(text of the page,          *)
(* roster_date) over the pages that are not skipped, each page's records   *)
(* in their in-page order and computed from that page's text alone: a      *)
(* record cut by a page break is not completed from the next page.         *)
(***************************************************************************)
C11_PageConcat ==
    /\ pc = "pages" => result = ResultUpTo(page_num)
    /\ pc = "done" => result = ResultUpTo(Len(pages))
    /\ pc \in {"outer", "inner"} => result = ResultUpTo(page_num)
    /\ \A k \in 1..(Len(origin) - 1) : origin[k] <= origin[k + 1]

\* Two pages were read: the first ends inside a record that has no phone,
\* the second starts with a name line and a phone line; the record of the
\* first page is returned without phone and licensee
C11_Witness ==
    /\ pc = "done"
    /\ skip_pages = 0
    /\ Len(pages) = 2
    /\ pages[2] = "COTTONWOOD VILLA\n(402) 387-1000"
    /\ Len(result) = 1
    /\ result[1].facility_name = "GOLD CREST"
    /\ result[1].phone = ""
    /\ result[1].licensee = ""

(***************************************************************************)
(* C12.  A page that is not skipped and whose extract_text() is empty or   *)
(* None contributes no record and raises nothing: the step that visits it  *)
(* leaves the result as it is and moves to the next page, no returned      *)
(* record originates from such a page, and the loop ends only after the    *)
(* last page.                                                              *)
(***************************************************************************)
C12_EmptyPageNoRecords ==
    /\ [][pc = "pages" /\ page_num < Len(pages) /\ page_num >= skip_pages
            /\ pages[page_num + 1] \in {None, ""}
            => result' = result /\ page_num' = page_num + 1 /\ pc' = "pages"]_vars
    /\ [](\A k \in 1..Len(origin) : pages[origin[k] + 1] \notin {None, ""})
    /\ [](pc = "done" => page_num = Len(pages))

\* A document whose first page has no text (None) and whose second page
\* holds a record was read from the first page on: the record is returned
C12_Witness ==
    /\ pc = "done"
    /\ skip_pages = 0
    /\ Len(pages) = 2
    /\ pages[1] = None
    /\ extracted = <<0, 1>>
    /\ Len(result) = 1
    /\ origin = <<1>>

(***************************************************************************)
(* C13.  Every record extract_facilities_from_pdf returns, and every       *)
(* record under construction, carries the roster_date argument (the empty  *)
(* string when the argument is None), on every page and whatever the lines *)
(* of the page are.                                                        *)
(***************************************************************************)
DateTag == IF roster_date = None THEN "" ELSE roster_date

C13_UniformRosterDate ==
    /\ \A k \in 1..Len(result) : result[k].roster_date = DateTag
    /\ \A k \in 1..Len(facilities) : facilities[k].roster_date = DateTag
    /\ pc = "inner" => facility.roster_date = DateTag

\* Records of two different pages were returned, both with the date given
C13_Witness ==
    /\ pc = "done"
    /\ roster_date = "2025-08-15"
    /\ Len(result) >= 2
    /\ origin[1] # origin[Len(origin)]
    /\ \A k \in 1..Len(result) : result[k].roster_date = "2025-08-15"

(***************************************************************************)
(* C14.  facilities_to_csv called with no records raises ValueError, the   *)
(* error for empty input, before the output file is opened: the step taken *)
(* leaves whatever is at output_path as it was, and the function never     *)
(* reaches the open or a write.                                            *)
(***************************************************************************)
C14_EmptyInputRaises ==
    /\ [][records = <<>> => pc' = "ValueError" /\ out_file' = out_file]_vars
    /\ [](pc = "ValueError" => records = <<>> /\ written = 0)
    /\ [](records = <<>> => pc \in {"csv", "ValueError"} /\ out_file \in OldFiles)

\* The call with no records has raised and there is no file at output_path
C14_Witness ==
    /\ pc = "ValueError"
    /\ records = <<>>
    /\ out_file = Absent

(***************************************************************************)
(* C15, as claimed.  The output of N >= 1 records is one header row in the *)
(* fixed column order and N data rows in input order, and reading it back  *)
(* (opened in text mode, as the unit test reads it) gives N rows whose     *)
(* values equal those of the input records.                                *)
(***************************************************************************)
C15_Original ==
    pc = "closed" =>
        LET all == ReadRows(UniversalNewlines(out_file), 1, <<>>)
        IN  /\ Len(all) = Len(records) + 1
            /\ all[1] = fieldnames
            /\ DictReader(UniversalNewlines(out_file)) = records

\* The record r with every carriage return of its values (followed by a line
\* feed or not) turned into a line feed
NewlinesTranslated(r) == [name \in DOMAIN r |-> UniversalNewlines(r[name])]

(***************************************************************************)
(* C15, amended.  The output of N >= 1 records is one header row in the    *)
(* fixed column order and N data rows in input order.  Read back without   *)
(* newline translation (newline='') it gives N rows whose values equal     *)
(* those of the input records; read back in text mode, as the unit test    *)
(* reads it, it gives N rows whose values equal those of the input records *)
(* except that every carriage return inside a value comes back as a line   *)
(* feed, so the values are equal for records that hold no carriage return. *)
(***************************************************************************)
C15_Amended ==
    pc = "closed" =>
        LET all == ReadRows(out_file, 1, <<>>)
        IN  /\ Len(records) >= 1
            /\ Len(all) = Len(records) + 1
            /\ all[1] = fieldnames
            /\ \A n \in 1..Len(records) : all[n + 1] = RowOf(records[n])
            /\ DictReader(out_file) = records
            /\ DictReader(UniversalNewlines(out_file))
                  = [n \in 1..Len(records) |-> NewlinesTranslated(records[n])]

\* Two records were written, one with a quote character in its name and a
\* comma in its licensee, one with a carriage return in its licensee; read
\* back in text mode the second comes back with a line feed
C15_Witness ==
    /\ pc = "closed"
    /\ Len(records) = 2
    /\ records[1].facility_name = "THE \"VILLA\""
    /\ records[1].licensee = "PRAIRIE INVESTORS, LLC"
    /\ records[2].licensee = "CARE\rOF"
    /\ DictReader(out_file) = records
    /\ DictReader(UniversalNewlines(out_file))[1] = records[1]
    /\ DictReader(UniversalNewlines(out_file))[2].licensee = "CARE\nOF"

(***************************************************************************)
(* C16.  No body line changes town, county, zip_code or facility_type: in  *)
(* the record under construction and in every returned record they are the *)
(* values fixed when the header line was recognized, so zip_code is five   *)
(* digits and facility_type is ALF.                                        *)
(***************************************************************************)
HeaderFields == {"town", "county", "zip_code", "facility_type"}

C16_HeaderFieldsFrozen ==
    /\ [][pc = "inner" /\ pc' = "inner" =>
            \A fld \in HeaderFields : facility'[fld] = facility[fld]]_vars
    /\ [](pc = "inner" =>
            \A fld \in HeaderFields : facility[fld] = Blank(CurrentHeader)[fld])
    /\ [](\A k \in 1..Len(facilities) :
            /\ \E h \in HeaderIndexes :
                  \A fld \in HeaderFields : facilities[k][fld] = Blank(h)[fld]
            /\ Len(facilities[k].zip_code) = 5
            /\ AllDigits(facilities[k].zip_code, 1, 5)
            /\ facilities[k].facility_type = "ALF")

\* A record whose body set a name, a phone and an address was returned with
\* the town, county and zip code of its header line
C16_Witness ==
    /\ pc = "returned"
    /\ Len(facilities) = 1
    /\ facilities[1].facility_name # ""
    /\ facilities[1].phone # ""
    /\ facilities[1].address # ""
    /\ facilities[1].town = "AINSWORTH"
    /\ facilities[1].county = "BROWN"
    /\ facilities[1].zip_code = "69210"
    /\ facilities[1].facility_type = "ALF"

\* The fields that each block of the inner loop assigns
RuleFields(rule) ==
    CASE rule = "beds"          -> {"total_beds", "services"}
      [] rule = "license"       -> {"license_number", "facility_name"}
      [] rule = "phone"         -> {"phone", "fax"}
      [] rule = "administrator" -> {"administrator"}
      [] rule = "care_of"       -> {"care_of_address"}
      [] rule = "services"      -> {"services"}
      [] rule = "accreditation" -> {"accreditation"}
      [] rule = "address"       -> {"address"}
      [] rule = "fallback"      -> {"facility_name", "licensee"}
      [] OTHER                  -> {}

\* What the block of one rule alone does to record f on line l
RuleApply(rule, f, l) ==
    CASE rule = "beds"          -> BedsApply(f, l)
      [] rule = "license"       -> LicenseApply(f, l)
      [] rule = "phone"         -> PhoneApply(f, l)
      [] rule = "administrator" -> AdminApply(f, l)
      [] rule = "care_of"       -> CareOfApply(f, l)
      [] rule = "services"      -> ServicesApply(f, l)
      [] rule = "accreditation" -> AccreditationApply(f, l)
      [] rule = "address"       -> AddressApply(f, l)
      [] rule = "fallback"      -> FallbackApply(f, l)
      [] OTHER                  -> f

\* The fields of the record that a step changed
ChangedFields == {fld \in DOMAIN facility : facility'[fld] # facility[fld]}

\* A step of the inner loop that handles a body line
BodyStep == pc = "inner" /\ pc' = "inner" /\ i' = i + 1

\* C17: each body line is handled by at most one classification rule, the
\* first in the priority order whose condition holds: the record after the
\* line is what that rule alone makes of it, and only fields of that rule
\* change. A line with a bed count and a license token sets total_beds (and
\* possibly services) only; a line with a license token and a phone number,
\* read while license_number is empty, sets license_number and facility_name
\* but not the phone.
C17_OneRulePerLine ==
    [][BodyStep =>
         \E l \in {LineAt(i)} : \E rule \in {BodyRule(facility, l)} :
            /\ facility' = RuleApply(rule, facility, l)
            /\ ChangedFields \subseteq RuleFields(rule)
            /\ BedsCond(l) /\ LicenseSearch(l).ok /\ ~IsPageHeader(l)
                  => ChangedFields \subseteq {"total_beds", "services"}
            /\ LicenseSearch(l).ok /\ PhoneSearch(l).ok /\ ~IsPageHeader(l)
                  /\ ~BedsCond(l) /\ facility.license_number = ""
                  => ChangedFields \subseteq {"license_number", "facility_name"}]_vars

\* A record was returned whose two body lines each met the conditions of two
\* rules: a bed count next to a license token, which set the beds and the
\* services and left the license empty for the next line, and a license
\* token next to a phone number, which set the license and the name and left
\* the phone empty
C17_Witness ==
    /\ pc = "returned"
    /\ Len(lines) = 3
    /\ lines[2] = "Total Lic - 36 ALZHEIMER ALF777"
    /\ lines[3] = "VILLA ALF046 (402) 387-1000"
    /\ Len(facilities) = 1
    /\ facilities[1].total_beds = "36"
    /\ facilities[1].services = "ALZHEIMER ALF777"
    /\ facilities[1].license_number = "ALF046"
    /\ facilities[1].facility_name = "VILLA"
    /\ facilities[1].phone = ""

\* The rules ahead of the administrator rule in the priority order
AboveAdministrator == {"page_header", "beds", "license", "phone"}

\* C18: a body line of the form '<name>, ADMINISTRATOR' or
\* '<name>, PROVISIONAL ADM', in any letter case, that no higher-priority
\* rule (banner, beds, license, phone) consumes sets administrator to the
\* trimmed <name>, for both role markers.
C18_AdministratorBothMarkers ==
    [][BodyStep =>
         \E l \in {LineAt(i)} :
            AdminMatch(l).ok /\ BodyRule(facility, l) \notin AboveAdministrator
               => facility'.administrator = Strip(AdminMatch(l).g1)]_vars

\* A step that reads a line with a license token into a record that has a
\* license number already
LaterLicenseStep ==
    /\ BodyStep
    /\ facility.license_number # ""
    /\ LicenseSearch(LineAt(i)).ok

\* C19 as stated: once license_number is set in a record, a later body line
\* of that record containing an ALF+3-digit token leaves every field of the
\* record unchanged.
C19_Original == [][LaterLicenseStep => facility' = facility]_vars

\* C19 (amended): once license_number is set in a record, a later body line
\* of that record containing an ALF+3-digit token never changes
\* license_number, but the line is not dropped: it is classified by the
\* first of the other rules whose condition holds and changes the fields of
\* that rule (the banner and beds rules ahead of the license rule, or phone,
\* administrator, care-of, services, accreditation, address and finally the
\* fallback, which stores the line as facility_name or licensee).
C19_Amended ==
    [][LaterLicenseStep =>
         \E l \in {LineAt(i)} : \E rule \in {BodyRule(facility, l)} :
            /\ facility'.license_number = facility.license_number
            /\ rule # "license"
            /\ facility' = RuleApply(rule, facility, l)
            /\ ChangedFields \subseteq RuleFields(rule) \ {"license_number"}]_vars

\* A record that took its license number and name from 'GOLD CREST ALF066'
\* was returned with the later line 'ALF046' stored as its licensee
C19_Witness ==
    /\ pc = "returned"
    /\ Len(lines) = 3
    /\ lines[2] = "GOLD CREST ALF066"
    /\ lines[3] = "ALF046"
    /\ Len(facilities) = 1
    /\ facilities[1].license_number = "ALF066"
    /\ facilities[1].facility_name = "GOLD CREST"
    /\ facilities[1].licensee = "ALF046"

\* remainder and ('NURSING' in remainder or 'ALZHEIMER' in remainder or
\* 'MEMORY' in remainder): the reading of line 126 with the parentheses
\* around the three keywords
KeywordRemainder(remainder) ==
    /\ remainder # ""
    /\ \/ Contains(remainder, "NURSING")
       \/ Contains(remainder, "ALZHEIMER")
       \/ Contains(remainder, "MEMORY")

\* What is left of the catalogued body lines after the bed-count marker is
\* removed, and the keywords alone
Remainders ==
    {Strip(BedsRemoved(l)) : l \in RuleLines \cup BodyLines}
        \cup {"", "NURSING", "ALZHEIMER", "MEMORY", "MEMORY NURSING", "nursing"}

\* A step that reads a bed-count line
BedsStep ==
    /\ BodyStep
    /\ ~IsPageHeader(LineAt(i))
    /\ BedsSearch(LineAt(i)).ok

\* C20: on a beds line ('Total Lic - <digits>') total_beds is set to the
\* digits, and the remainder of the line is appended to services if and only
\* if it is non-empty and contains NURSING, ALZHEIMER or MEMORY; the
\* condition of line 126 has the same outcome as the one with the three
\* keywords in parentheses for every remainder, so an empty remainder is
\* never appended.
C20_BedsRemainder ==
    /\ [][BedsStep =>
            \E l \in {LineAt(i)} : \E remainder \in {Strip(BedsRemoved(l))} :
               /\ facility'.total_beds = BedsSearch(l).g1
               /\ AllDigits(facility'.total_beds, 1, Len(facility'.total_beds))
               /\ facility'.total_beds # ""
               /\ IF KeywordRemainder(remainder)
                  THEN facility'.services =
                          IF facility.services # ""
                          THEN facility.services \o "; " \o remainder
                          ELSE remainder
                  ELSE facility'.services = facility.services
               /\ remainder = "" => facility'.services = facility.services
               /\ ChangedFields \subseteq {"total_beds", "services"}]_vars
    /\ [](\A remainder \in Remainders :
            BedsServicesCond(remainder) <=> KeywordRemainder(remainder))

\* Both body lines of a record were read: a bed-count line with nothing
\* after the count, which left the services empty, and one followed by
\* COMPLEX NURSING, which became the services
C20_Witness ==
    /\ pc = "inner"
    /\ i = 3
    /\ Len(lines) = 3
    /\ lines[1] = " AINSWORTH ( BROWN ) - 69210 ALF"
    /\ lines[2] = "Total Lic - 35"
    /\ lines[3] = "Total Lic - 12 COMPLEX NURSING"
    /\ facility.total_beds = "12"
    /\ facility.services = "COMPLEX NURSING"

\* The text that a body line can add to the services: the line itself
\* (line 172/174) or what is left of it after the bed-count marker (line 125)
ServiceTexts(l) == {l, Strip(BedsRemoved(l))} \ {""}

\* new is old with one text added the way lines 127-130 and 171-174 add it
Accumulated(old, new, added) ==
    IF old = "" THEN new \in added
    ELSE \E t \in added : new = old \o "; " \o t

\* s begins with the header's trailing text, followed by nothing or by the
\* separator
SeededBy(s, seed) ==
    \/ seed = ""
    \/ s = seed
    \/ StartsWith(s, seed \o "; ") /\ Len(s) > Len(seed) + 2

\* C21: services only accumulates within a record. After any body line the
\* previous value is a prefix of the new one; text appended to a non-empty
\* value is preceded by '; ', text stored into an empty value has no
\* separator, and no rule clears or overwrites services: the header's
\* trailing text, when present, remains the first element.
C21_ServicesAccumulate ==
    /\ [][BodyStep =>
            \/ facility'.services = facility.services
            \/ /\ SubSeq(facility'.services, 1, Len(facility.services))
                     = facility.services
               /\ Accumulated(facility.services, facility'.services,
                              ServiceTexts(LineAt(i)))]_vars
    /\ [](pc = "inner" =>
            SeededBy(facility.services, Blank(CurrentHeader).services))
    /\ [](\A k \in 1..Len(facilities) :
            \E h \in HeaderIndexes :
               SeededBy(facilities[k].services, Blank(h).services))

\* A record seeded with AGED/DISABLED by its header was returned with the
\* services line and the remainder of the bed-count line appended in order
C21_Witness ==
    /\ pc = "returned"
    /\ Len(facilities) = 1
    /\ facilities[1].license_number = "ALF066"
    /\ facilities[1].services = "AGED/DISABLED; MEMORY CARE; ALZHEIMER ALF777"

\* Record f has the phone and the fax number of one line among the body
\* lines from..to (cursor positions)
SameLineNumbers(f, from, to) ==
    \E k \in from..to :
       /\ PhoneSearch(LineAt(k)).ok
       /\ FaxSearch(LineAt(k)).ok
       /\ f.phone = FormatPhone(PhoneSearch(LineAt(k)))
       /\ f.fax = FormatPhone(FaxSearch(LineAt(k)))

\* C22: in every state of a record, fax non-empty implies phone non-empty
\* and both were set by the same body line; a FAX: marker on a line read
\* after phone is set never populates fax.
C22_FaxWithPhone ==
    /\ [](pc = "inner" /\ facility.fax # "" =>
            /\ facility.phone # ""
            /\ SameLineNumbers(facility, CurrentHeader + 1, i - 1))
    /\ [](\A k \in 1..Len(facilities) :
            facilities[k].fax # "" =>
               /\ facilities[k].phone # ""
               /\ SameLineNumbers(facilities[k], 0, Len(lines) - 1))
    /\ [][BodyStep /\ facility'.fax # facility.fax =>
            /\ facility.phone = "" /\ facility.fax = ""
            /\ facility'.phone = FormatPhone(PhoneSearch(LineAt(i)))
            /\ facility'.fax = FormatPhone(FaxSearch(LineAt(i)))]_vars
    /\ [][BodyStep /\ facility.phone # "" =>
            /\ facility'.fax = facility.fax
            /\ facility'.phone = facility.phone]_vars

\* A record whose phone was set by a line without a fax number went on to
\* read a line with a FAX: marker, and its fax is still empty
C22_Witness ==
    /\ pc = "inner"
    /\ i = 3
    /\ Len(lines) >= 3
    /\ lines[2] = "(402) 387-1000"
    /\ lines[3] = "(402) 988-7115 FAX:(402) 988-2087"
    /\ facility.phone = "(402) 387-1000"
    /\ facility.fax = ""

\* Line l meets none of the conditions of the blocks ahead of the fallback
\* and passes the fallback's tests on the line itself (lines 193, 195-197)
EligibleUnclassified(f, l) ==
    /\ BodyRule(f, l) \in {"fallback", "none"}
    /\ l # ""
    /\ ~StartsWith(l, "Page ")
    /\ ~IsNumber(l)
    /\ len(l) > 3

\* facility_name if empty, else licensee if empty, else discard
FirstFreeSlot(f, l) ==
    IF f.facility_name = "" THEN [f EXCEPT !.facility_name = l]
    ELSE IF f.licensee = "" THEN [f EXCEPT !.licensee = l]
    ELSE f

\* C23: in every state of a record, licensee non-empty implies
\* facility_name non-empty; so the fallback guard, which requires an empty
\* licensee before it looks at facility_name, never stops an eligible
\* unclassified line from claiming an empty facility_name, and the fallback
\* behaves exactly as 'facility_name if empty, else licensee if empty, else
\* discard'.
C23_NameBeforeLicensee ==
    /\ [](pc = "inner" /\ facility.licensee # "" => facility.facility_name # "")
    /\ [](\A k \in 1..Len(facilities) :
            facilities[k].licensee # "" => facilities[k].facility_name # "")
    /\ [][BodyStep =>
            \E l \in {LineAt(i)} :
               EligibleUnclassified(facility, l) =>
                  /\ facility' = FirstFreeSlot(facility, l)
                  /\ facility.facility_name = "" =>
                        FallbackCond(facility, l) /\ facility'.facility_name = l]_vars

\* A record was returned whose three unclassified lines became the name and
\* the licensee, the third being discarded
C23_Witness ==
    /\ pc = "returned"
    /\ Len(lines) = 4
    /\ lines[2] = "COTTONWOOD VILLA"
    /\ lines[3] = "PRAIRIE INVESTORS, LLC"
    /\ lines[4] = "COTTONWOOD VILLA"
    /\ Len(facilities) = 1
    /\ facilities[1].facility_name = "COTTONWOOD VILLA"
    /\ facilities[1].licensee = "PRAIRIE INVESTORS, LLC"

====
